---- MODULE Spec2Model ----
(***************************************************************************)
(* Model of go-configfs-tsm: the fake configfs-tsm report subsystem        *)
(* (configfs/faketsm/fakereport.go) and the report client that drives it   *)
(* (report/report.go).                                                     *)
(*                                                                         *)
(* Byte strings are sequences of byte values (0..255); entry names and     *)
(* name patterns are sequences of one-character strings; an error is a     *)
(* sequence of strings, outermost context first, << >> being nil.          *)
(***************************************************************************)
EXTENDS Integers, Sequences, FiniteSets, TLC

\* ------------------------------------------------------------------ bounds
\* Width in bits of the generation counters of the model (uint64 in the code).
GenBits == 2
\* Number of ReportEntry objects that can be live at the same time.
MaxEntries == 2
\* Number of store calls the direct callers issue in one run of the store.
MaxCalls == 5
\* Number of store calls the direct caller issues in one run next to the client.
MaxForeign == 3
\* Number of calls of exported client functions in one run.
MaxClientCalls == 3
\* Number of times an outside party sets ReadGeneration in one run.
MaxInject == 1
\* Largest privilege-level floor a subsystem is built with.
MaxFloor == 4
\* Largest length of the texts written as a privilege level.
MaxText == 2
\* Largest length of a component of a TsmPath that is turned into a string.
MaxName == 2
\* Largest number of slash-separated segments after the start of a path
\* that is parsed.
MaxSegs == 4

GenMod == 2 ^ GenBits

\* --------------------------------------------------------------- constants
tsmInBlobSize == 64
subsystemName == "report"

\* threads calling straight into the ReportSubsystem
Raw == {1, 2}
\* the thread that runs the report client (report.go)
S == Cardinality(Raw) + 1
Threads == Raw \cup {S}
Ids == 1 .. MaxEntries

\* ------------------------------------------------------------------ errors
NoErr == << >>
ErrNotExist == <<"file does not exist">>
ErrExist == <<"file already exists">>
EBUSY == <<"device or resource busy">>
EWOULDBLOCK == <<"resource temporarily unavailable">>
EINVAL == <<"invalid argument">>
ErrPrivLevelFormat == <<"privlevel must be 0-3">>

\* fmt.Errorf("<ctx>: %v", err)
Wrap(ctx, err) == <<ctx>> \o err

\* ------------------------------------------------------- text and numbers
RECURSIVE FormatUint(_)
\* strconv.FormatUint(n, 10)
FormatUint(n) ==
  IF n < 10 THEN <<48 + n>> ELSE FormatUint(n \div 10) \o <<48 + (n % 10)>>

RECURSIVE ParseDigits(_, _)
ParseDigits(s, acc) ==
  IF s = << >> THEN acc ELSE ParseDigits(Tail(s), acc * 10 + (Head(s) - 48))

\* strconv.ParseUint(s, 10, bitSize): no sign, digits only, value < 2^bitSize
ParseUint(s, bitSize) ==
  IF s = << >> \/ \E i \in 1 .. Len(s) : s[i] < 48 \/ s[i] > 57
  THEN [ok |-> FALSE, v |-> 0]
  ELSE LET v == ParseDigits(s, 0)
       IN IF v >= 2 ^ bitSize THEN [ok |-> FALSE, v |-> 0]
                              ELSE [ok |-> TRUE, v |-> v]

RECURSIVE Utf8Valid(_)
\* unicode/utf8.Valid
Utf8Valid(s) ==
  IF s = << >> THEN TRUE
  ELSE LET b == s[1]
           Cont(i, lo, hi) == Len(s) >= i /\ s[i] >= lo /\ s[i] <= hi
           Rest(n) == Utf8Valid(SubSeq(s, n + 1, Len(s)))
       IN IF b < 128 THEN Rest(1)
          ELSE IF b >= 194 /\ b <= 223 THEN Cont(2, 128, 191) /\ Rest(2)
          ELSE IF b = 224 THEN Cont(2, 160, 191) /\ Cont(3, 128, 191) /\ Rest(3)
          ELSE IF b = 237 THEN Cont(2, 128, 159) /\ Cont(3, 128, 191) /\ Rest(3)
          ELSE IF b >= 225 /\ b <= 239
               THEN Cont(2, 128, 191) /\ Cont(3, 128, 191) /\ Rest(3)
          ELSE IF b = 240
               THEN Cont(2, 144, 191) /\ Cont(3, 128, 191) /\ Cont(4, 128, 191) /\ Rest(4)
          ELSE IF b >= 241 /\ b <= 243
               THEN Cont(2, 128, 191) /\ Cont(3, 128, 191) /\ Cont(4, 128, 191) /\ Rest(4)
          ELSE IF b = 244
               THEN Cont(2, 128, 143) /\ Cont(3, 128, 191) /\ Cont(4, 128, 191) /\ Rest(4)
          ELSE FALSE

HexDigit(d) == IF d < 10 THEN 48 + d ELSE 87 + d

RECURSIVE HexEncode(_)
\* encoding/hex.EncodeToString
HexEncode(b) ==
  IF b = << >> THEN << >>
  ELSE <<HexDigit(b[1] \div 16), HexDigit(b[1] % 16)>> \o HexEncode(Tail(b))

\* "fake"
TxtFake == <<102, 97, 107, 101>>
\* "auxblob"
TxtAuxblob == <<97, 117, 120, 98, 108, 111, 98>>
\* "<missing>"
TxtMissing == <<60, 109, 105, 115, 115, 105, 110, 103, 62>>
\* "privlevel: "
TxtPrivlevel == <<112, 114, 105, 118, 108, 101, 118, 101, 108, 58, 32>>
\* "\ninblob: "
TxtInblob == <<10, 105, 110, 98, 108, 111, 98, 58, 32>>


\* ------------------------------------------------------------- path model
\* configfsi.TsmPath; Entry is << >> and Attribute is "" when not set
TsmPath(sub, entry, attr) == [Subsystem |-> sub, Entry |-> entry, Attribute |-> attr]

RECURSIVE LastIndex(_, _)
\* strings.LastIndex(s, c) counted from 1; 0 when c does not occur
LastIndex(s, c) ==
  IF s = << >> THEN 0
  ELSE IF s[Len(s)] = c THEN Len(s)
  ELSE LastIndex(SubSeq(s, 1, Len(s) - 1), c)

NameRdfail == <<"r", "d", "f", "a", "i", "l">>

\* ---- paths as text: sequences of one-character strings
\* TsmPrefix = "/sys/kernel/config/tsm"
TsmPrefix ==
  <<"/", "s", "y", "s", "/", "k", "e", "r", "n", "e", "l", "/",
    "c", "o", "n", "f", "i", "g", "/", "t", "s", "m">>
DotDot == <<".", ".">>

RECURSIVE SplitSlash(_)
\* the elements of s between its slashes
SplitSlash(s) ==
  IF \A i \in 1 .. Len(s) : s[i] # "/" THEN <<s>>
  ELSE LET i == CHOOSE k \in 1 .. Len(s) :
                  s[k] = "/" /\ \A j \in 1 .. k - 1 : s[j] # "/"
       IN <<SubSeq(s, 1, i - 1)>> \o SplitSlash(SubSeq(s, i + 1, Len(s)))

RECURSIVE JoinSlash(_)
\* strings.Join(elems, "/")
JoinSlash(elems) ==
  IF elems = << >> THEN << >>
  ELSE IF Len(elems) = 1 THEN elems[1]
  ELSE elems[1] \o <<"/">> \o JoinSlash(Tail(elems))

RECURSIVE CleanElems(_, _, _)
\* the elements path.Clean keeps: empty and "." elements are dropped, ".."
\* removes the element before it, is dropped at the root and is kept at the
\* start of a path that is not rooted
CleanElems(elems, kept, rooted) ==
  IF elems = << >> THEN kept
  ELSE LET x == Head(elems)
       IN IF x = << >> \/ x = <<".">> THEN CleanElems(Tail(elems), kept, rooted)
          ELSE IF x = DotDot
          THEN IF kept # << >> /\ kept[Len(kept)] # DotDot
               THEN CleanElems(Tail(elems), SubSeq(kept, 1, Len(kept) - 1), rooted)
               ELSE IF rooted THEN CleanElems(Tail(elems), kept, rooted)
               ELSE CleanElems(Tail(elems), Append(kept, x), rooted)
          ELSE CleanElems(Tail(elems), Append(kept, x), rooted)

\* path.Clean
Clean(pth) ==
  IF pth = << >> THEN <<".">>
  ELSE LET rooted == pth[1] = "/"
           out == (IF rooted THEN <<"/">> ELSE << >>)
                  \o JoinSlash(CleanElems(SplitSlash(pth), << >>, rooted))
       IN IF out = << >> THEN <<".">> ELSE out

\* path.Join: empty elements are ignored, the result is cleaned
Join(elems) ==
  LET set == SelectSeq(elems, LAMBDA e : e # << >>)
  IN IF set = << >> THEN << >> ELSE Clean(JoinSlash(set))

\* path.Dir
Dir(pth) == Clean(SubSeq(pth, 1, LastIndex(pth, "/")))

RECURSIVE StripSlashes(_)
\* pth without its trailing slashes
StripSlashes(pth) ==
  IF pth # << >> /\ pth[Len(pth)] = "/"
  THEN StripSlashes(SubSeq(pth, 1, Len(pth) - 1)) ELSE pth

\* path.Base
Base(pth) ==
  IF pth = << >> THEN <<".">>
  ELSE LET q == StripSlashes(pth)
           r == SubSeq(q, LastIndex(q, "/") + 1, Len(q))
       IN IF r = << >> THEN <<"/">> ELSE r

\* strings.TrimPrefix
TrimPrefix(s, prefix) ==
  IF Len(s) >= Len(prefix) /\ SubSeq(s, 1, Len(prefix)) = prefix
  THEN SubSeq(s, Len(prefix) + 1, Len(s)) ELSE s

\* TsmPath.String as it would be with Entry joined before Subsystem
StringEntryFirst(p) == Join(<<TsmPrefix, p.Entry, p.Subsystem, p.Attribute>>)

\* TsmPath.String, for a TsmPath whose three components are text
String(p) == Join(<<TsmPrefix, p.Subsystem, p.Entry, p.Attribute>>)

\* the nil *TsmPath
NilPath == TsmPath(<< >>, << >>, << >>)

\* ParseTsmPath: the TsmPath and the error.  Line 41 compares what is left
\* of the cleaned path with the path as it was passed.
ParseTsmPath(filepath) ==
  LET p == Clean(filepath)
      rest0 == TrimPrefix(p, TsmPrefix)
      rest == TrimPrefix(rest0, <<"/">>)
      dir == Dir(rest)
      file == Base(rest)
      gdir == Dir(dir)
      mfile == Base(dir)
      ggdir == Dir(gdir)
      subsystem == Base(gdir)
  IN IF rest0 = filepath
     THEN [path |-> NilPath, err |-> <<"does not begin with">>]
     ELSE IF rest = << >>
     THEN [path |-> NilPath, err |-> <<"does not contain a subsystem">>]
     ELSE IF dir = <<".">>
     THEN [path |-> TsmPath(file, << >>, << >>), err |-> NoErr]
     ELSE IF gdir = <<".">>
     THEN [path |-> TsmPath(mfile, file, << >>), err |-> NoErr]
     ELSE IF ggdir # <<".">>
     THEN [path |-> NilPath,
           err |-> <<"suffix expected to be of form subsystem[/entry[/attribute]]">>]
     ELSE [path |-> TsmPath(subsystem, mfile, file), err |-> NoErr]

\* configfsi.TempName: randString is declared and never assigned, so the
\* placeholder is replaced by the empty string
TempName(randOK, pattern) ==
  LET randString == << >>
      lastAsterisk == LastIndex(pattern, "*")
  IN IF ~randOK THEN NameRdfail
     ELSE IF lastAsterisk = 0 THEN pattern \o randString
     ELSE SubSeq(pattern, 1, lastAsterisk - 1) \o randString
          \o SubSeq(pattern, lastAsterisk + 1, Len(pattern))

\* ------------------------------------------------------------ report entry
NoCache == [a \in {} |-> << >>]

\* makeV7: a fresh ReportEntry (zero generations, not destroyed, nil ROAttrs)
makeV7 ==
  [destroyed |-> FALSE,
   ReadGeneration |-> 0,
   WriteGeneration |-> 0,
   InAttrs |-> [a \in {"privlevel", "inblob"} |->
                  IF a = "privlevel" THEN [Value |-> <<48>>, ReadWrite |-> FALSE]
                                     ELSE [Value |-> << >>, ReadWrite |-> FALSE]],
   ROAttrs |-> NoCache]

\* readV7 as it would be if outblob held the input blob as it is
readV7RawInblob(floor, e, attr) ==
  IF attr = "provider" THEN [val |-> TxtFake, err |-> NoErr]
  ELSE IF attr = "auxblob" THEN [val |-> TxtAuxblob, err |-> NoErr]
  ELSE IF attr = "outblob" THEN
    LET privlevel == IF "privlevel" \in DOMAIN e.InAttrs
                        /\ Len(e.InAttrs["privlevel"].Value) > 0
                     THEN e.InAttrs["privlevel"].Value
                     ELSE TxtMissing
    IN [val |-> TxtPrivlevel \o privlevel \o TxtInblob \o e.InAttrs["inblob"].Value,
        err |-> NoErr]
  ELSE IF attr = "privlevel_floor" THEN [val |-> FormatUint(floor), err |-> NoErr]
  ELSE [val |-> << >>, err |-> ErrNotExist]

\* readV7(privlevelFloor): the computation policy ReadAttr
readV7(floor, e, attr) ==
  IF attr = "provider" THEN [val |-> TxtFake, err |-> NoErr]
  ELSE IF attr = "auxblob" THEN [val |-> TxtAuxblob, err |-> NoErr]
  ELSE IF attr = "outblob" THEN
    LET privlevel == IF "privlevel" \in DOMAIN e.InAttrs
                        /\ Len(e.InAttrs["privlevel"].Value) > 0
                     THEN e.InAttrs["privlevel"].Value
                     ELSE TxtMissing
    IN [val |-> TxtPrivlevel \o privlevel \o TxtInblob
                \o HexEncode(e.InAttrs["inblob"].Value),
        err |-> NoErr]
  ELSE IF attr = "privlevel_floor" THEN [val |-> FormatUint(floor), err |-> NoErr]
  ELSE [val |-> << >>, err |-> ErrNotExist]

\* checkV7 as it would be without the size limit of the input blob
checkV7NoLimit(floor, attr, contents) ==
  IF attr = "inblob" THEN NoErr
  ELSE IF attr = "privlevel" THEN
    IF ~Utf8Valid(contents) THEN ErrPrivLevelFormat
    ELSE LET r == ParseUint(contents, 2)
         IN IF ~r.ok THEN ErrPrivLevelFormat
            ELSE IF r.v < floor
                 THEN <<"privlevel cannot be less than", ToString(r.v), ToString(floor)>>
                 ELSE NoErr
  ELSE <<"unwritable attribute", attr>>

\* checkV7 as it would be without the comparison with the floor
checkV7NoFloor(floor, attr, contents) ==
  IF attr = "inblob" THEN
    IF Len(contents) > tsmInBlobSize THEN EINVAL ELSE NoErr
  ELSE IF attr = "privlevel" THEN
    IF ~Utf8Valid(contents) THEN ErrPrivLevelFormat
    ELSE LET r == ParseUint(contents, 2)
         IN IF ~r.ok THEN ErrPrivLevelFormat ELSE NoErr
  ELSE <<"unwritable attribute", attr>>

\* checkV7(privlevelFloor): the validation policy CheckInAttr
checkV7(floor, attr, contents) ==
  IF attr = "inblob" THEN
    IF Len(contents) > tsmInBlobSize THEN EINVAL ELSE NoErr
  ELSE IF attr = "privlevel" THEN
    IF ~Utf8Valid(contents) THEN ErrPrivLevelFormat
    ELSE LET r == ParseUint(contents, 2)
         IN IF ~r.ok THEN ErrPrivLevelFormat
            ELSE IF r.v < floor
                 THEN <<"privlevel cannot be less than", ToString(r.v), ToString(floor)>>
                 ELSE NoErr
  ELSE <<"unwritable attribute", attr>>

\* tryAdvanceWriteGeneration as it would be with the wraparound guard left out
tryAdvanceNoBusy(e) ==
  IF e.destroyed THEN [err |-> ErrNotExist, e |-> e]
  ELSE [err |-> NoErr,
        e |-> [e EXCEPT !.WriteGeneration = (e.WriteGeneration + 1) % GenMod]]

\* tryAdvanceWriteGeneration as it would be if the subtraction did not wrap
tryAdvanceNoWrap(e) ==
  IF e.destroyed THEN [err |-> ErrNotExist, e |-> e]
  ELSE IF e.WriteGeneration = e.ReadGeneration - 1
       THEN [err |-> EBUSY, e |-> e]
  ELSE [err |-> NoErr,
        e |-> [e EXCEPT !.WriteGeneration = (e.WriteGeneration + 1) % GenMod]]

\* ReportEntry.tryAdvanceWriteGeneration: the error and the entry afterwards
tryAdvanceWriteGeneration(e) ==
  IF e.destroyed THEN [err |-> ErrNotExist, e |-> e]
  ELSE IF e.WriteGeneration = (e.ReadGeneration - 1) % GenMod
       THEN [err |-> EBUSY, e |-> e]
  ELSE [err |-> NoErr,
        e |-> [e EXCEPT !.WriteGeneration = (e.WriteGeneration + 1) % GenMod]]

\* readCached as it would be if "generation" came after the generation check
readCachedGenerationLate(e, attr) ==
  IF e.destroyed THEN [val |-> << >>, err |-> ErrNotExist]
  ELSE IF e.ReadGeneration # e.WriteGeneration
       THEN [val |-> << >>, err |-> EWOULDBLOCK]
  ELSE IF attr = "generation"
       THEN [val |-> FormatUint(e.WriteGeneration), err |-> NoErr]
  ELSE IF attr \in DOMAIN e.InAttrs THEN
         IF ~e.InAttrs[attr].ReadWrite
         THEN [val |-> << >>, err |-> <<"is not readable", attr>>]
         ELSE [val |-> e.InAttrs[attr].Value, err |-> NoErr]
  ELSE IF attr \in DOMAIN e.ROAttrs
       THEN [val |-> e.ROAttrs[attr], err |-> NoErr]
  ELSE [val |-> << >>, err |-> ErrNotExist]

\* ReportEntry.readCached: the fast path, run under the shared entry lock
readCached(e, attr) ==
  IF e.destroyed THEN [val |-> << >>, err |-> ErrNotExist]
  ELSE IF attr = "generation"
       THEN [val |-> FormatUint(e.WriteGeneration), err |-> NoErr]
  ELSE IF e.ReadGeneration # e.WriteGeneration
       THEN [val |-> << >>, err |-> EWOULDBLOCK]
  ELSE IF attr \in DOMAIN e.InAttrs THEN
         IF ~e.InAttrs[attr].ReadWrite
         THEN [val |-> << >>, err |-> <<"is not readable", attr>>]
         ELSE [val |-> e.InAttrs[attr].Value, err |-> NoErr]
  ELSE IF attr \in DOMAIN e.ROAttrs
       THEN [val |-> e.ROAttrs[attr], err |-> NoErr]
  ELSE [val |-> << >>, err |-> ErrNotExist]

\* m[k] = v in a Go map
Put(m, k, v) == [a \in DOMAIN m \cup {k} |-> IF a = k THEN v ELSE m[a]]
\* delete(m, k)
Del(m, k) == [a \in DOMAIN m \ {k} |-> m[a]]
Range(f) == {f[x] : x \in DOMAIN f}


\* ------------------------------------------------------------------- state
VARIABLES
  privlevelFloor, \* the floor the subsystem was built with (ReportV7(floor))
  Entries,        \* ReportSubsystem.Entries: entry name -> ReportEntry object
  EntriesIsNil,   \* TRUE while ReportSubsystem.Entries is the nil map
  rmu,            \* ReportSubsystem.mu: w = thread holding Lock (0 = none),
                  \* leaked = some RLock was never released
  ent,            \* the ReportEntry objects, by object id
  emu,            \* ReportEntry.mu: thread holding Lock, by object id (0 = none)
  call,           \* per thread: the store call in progress and its result
  nSucc,          \* history: WriteFile calls that returned nil, by object id
  sess,           \* the report client: its OpenReport and its position
  budget,         \* calls still to be issued: raw by the direct callers,
                  \* client by the caller of the report client
  gh              \* history of the client's entry: own = the object the session
                  \* created is still registered; fw = WriteFile calls of other
                  \* parties on the session's entry that returned nil since the
                  \* session was created; seen = what that history was when the
                  \* session last read "generation" inside ReadOption; wrote =
                  \* a WriteOption of the session has returned nil
VARIABLES
  app             \* a function of the program applied to one argument alone:
                  \* fn its name, arg the argument, res the result once done,
                  \* from the TsmPath whose String the argument is (if any)

storeVars == <<privlevelFloor, Entries, EntriesIsNil, rmu, ent, emu, call, nSucc>>
vars == <<privlevelFloor, Entries, EntriesIsNil, rmu, ent, emu, call, nSucc, sess, budget, gh, app>>

NoPath == TsmPath("", << >>, "")
Idle == [pc |-> "idle", op |-> "", p |-> NoPath, data |-> << >>, e |-> 0,
         val |-> << >>, err |-> NoErr, out |-> << >>, how |-> ""]

\* a call that has returned: its result waits in the thread's record
Ret(c, op, p, val, err, how) ==
  [Idle EXCEPT !.pc = "ret", !.op = op, !.p = p,
               !.val = val, !.err = err, !.how = how]

\* an object no thread and no registry slot refers to is garbage; its slot
\* is cleared so that MakeEntry can reuse it
Live(i, EntriesX, callX) ==
  i \in Range(EntriesX) \/ \E t \in Threads : callX[t].e = i
Collect(f, blank, EntriesX, callX) ==
  [i \in Ids |-> IF Live(i, EntriesX, callX) THEN f[i] ELSE blank]

\* report.Response
NoResp == [Provider |-> << >>, OutBlob |-> << >>, AuxBlob |-> << >>]
\* report.Privilege behind a pointer: set = FALSE is the nil pointer
NoPrivilege == [set |-> FALSE, Level |-> 0]

\* The client thread.  obj .. GetAuxBlob are the OpenReport (obj = FALSE: the
\* caller holds none; entrySet = FALSE: r.entry is nil).  top is the exported
\* function the caller invoked, one the position inside the one-shot Get, get
\* the position inside OpenReport.Get, m the store call the innermost method
\* is at; subtree and data are that method's arguments and locals.  done says
\* that top has returned, with rresp, rval and rerr; last is the return of
\* the most recent CreateOpenReport, WriteOption, ReadOption or Destroy, m in
\* it the store call that method was at when it returned ("": it made none).
NoSession ==
  [obj |-> FALSE, entrySet |-> FALSE, entry |-> << >>, expectedGeneration |-> 0,
   InBlob |-> << >>, Privilege |-> NoPrivilege, GetAuxBlob |-> FALSE,
   top |-> "", one |-> "", get |-> "", m |-> "",
   subtree |-> "", data |-> << >>, resp |-> NoResp, gerr |-> NoErr,
   done |-> FALSE, rresp |-> NoResp, rval |-> << >>, rerr |-> NoErr,
   last |-> [fn |-> "", subtree |-> "", val |-> << >>, err |-> NoErr, m |-> ""]]

NoApp == [fn |-> "", arg |-> << >>, res |-> << >>, done |-> FALSE, from |-> << >>]
NoHistory == [own |-> FALSE, fw |-> 0, seen |-> "", wrote |-> FALSE]

Init ==
  /\ privlevelFloor \in 0 .. 1
  /\ Entries = [n \in {} |-> 0]
  /\ EntriesIsNil = TRUE
  /\ rmu = [w |-> 0, leaked |-> FALSE]
  /\ ent = [i \in Ids |-> makeV7]
  /\ emu = [i \in Ids |-> 0]
  /\ call = [t \in Threads |-> Idle]
  /\ nSucc = [i \in Ids |-> 0]
  /\ sess = NoSession
  /\ gh = NoHistory
  /\ app = NoApp
  /\ budget = [raw |-> MaxCalls, client |-> 0, inject |-> 0]

\* the policies the subsystem was built with (ReportV7)
ReadAttr(e, attr) == readV7(privlevelFloor, e, attr)
CheckInAttr(e, attr, contents) == checkV7(privlevelFloor, attr, contents)
MakeEntry == makeV7

\* ------------------------------------------------ ReportSubsystem.MkdirTemp
\* MkdirTemp as it would be without the lookup of lines 106-108
MkdirTempReplaces(t, dir, pattern, randOK) ==
  /\ call[t].pc = "idle"
  /\ UNCHANGED <<privlevelFloor, emu, nSucc>>
  /\ IF dir.Entry # << >>
     THEN /\ call' = [call EXCEPT ![t] =
                 Ret(Idle, "MkdirTemp", dir, << >>, <<"cannot have subdirectories">>, "")]
          /\ UNCHANGED <<Entries, EntriesIsNil, rmu, ent>>
     ELSE /\ rmu.w = 0 /\ ~rmu.leaked
          /\ EntriesIsNil' = FALSE
          /\ UNCHANGED rmu
          /\ LET name == TempName(randOK, pattern)
             IN /\ \E i \in Ids : ~Live(i, Entries, call)
                /\ LET i == CHOOSE j \in Ids : ~Live(j, Entries, call)
                   IN /\ Entries' = Put(Entries, name, i)
                      /\ ent' = [ent EXCEPT ![i] = MakeEntry]
                /\ call' = [call EXCEPT ![t] =
                       [Ret(Idle, "MkdirTemp", dir, << >>, NoErr, "")
                          EXCEPT !.out = name]]

\* one step: the whole body runs under r.mu.Lock
MkdirTemp(t, dir, pattern, randOK) ==
  /\ call[t].pc = "idle"
  /\ UNCHANGED <<privlevelFloor, emu, nSucc>>
  /\ IF dir.Entry # << >>
     THEN /\ call' = [call EXCEPT ![t] =
                 Ret(Idle, "MkdirTemp", dir, << >>, <<"cannot have subdirectories">>, "")]
          /\ UNCHANGED <<Entries, EntriesIsNil, rmu, ent>>
     ELSE /\ rmu.w = 0 /\ ~rmu.leaked
          /\ EntriesIsNil' = FALSE
          /\ UNCHANGED rmu
          /\ LET name == TempName(randOK, pattern)
             IN IF name \in DOMAIN Entries
                THEN /\ call' = [call EXCEPT ![t] =
                            Ret(Idle, "MkdirTemp", dir, << >>, ErrExist, "")]
                     /\ UNCHANGED <<Entries, ent>>
                ELSE /\ \E i \in Ids : ~Live(i, Entries, call)
                     /\ LET i == CHOOSE j \in Ids : ~Live(j, Entries, call)
                        IN /\ Entries' = Put(Entries, name, i)
                           /\ ent' = [ent EXCEPT ![i] = MakeEntry]
                     /\ call' = [call EXCEPT ![t] =
                            [Ret(Idle, "MkdirTemp", dir, << >>, NoErr, "")
                               EXCEPT !.out = name]]

\* ------------------------------------------------- ReportSubsystem.ReadFile
\* lines 146-163: the registry lookup under r.mu.RLock.  When Entries is nil
\* the function returns without RUnlock.
ReadFile(t, p) ==
  /\ call[t].pc = "idle"
  /\ UNCHANGED <<privlevelFloor, Entries, EntriesIsNil, ent, emu, nSucc>>
  /\ IF p.Attribute = ""
     THEN /\ call' = [call EXCEPT ![t] =
                 Ret(Idle, "ReadFile", p, << >>, <<"not an attribute">>, "")]
          /\ UNCHANGED rmu
     ELSE /\ rmu.w = 0
          /\ IF EntriesIsNil
             THEN /\ rmu' = [rmu EXCEPT !.leaked = TRUE]
                  /\ call' = [call EXCEPT ![t] =
                         Ret(Idle, "ReadFile", p, << >>, ErrNotExist, "")]
             ELSE /\ UNCHANGED rmu
                  /\ IF p.Entry \notin DOMAIN Entries
                     THEN call' = [call EXCEPT ![t] =
                              Ret(Idle, "ReadFile", p, << >>, ErrNotExist, "")]
                     ELSE call' = [call EXCEPT ![t] =
                              [Idle EXCEPT !.pc = "readCached", !.op = "ReadFile",
                                           !.p = p, !.e = Entries[p.Entry]]]


\* the fast path as it would be if it returned whatever readCached returned
ReadFileFastReturnsAll(t) ==
  LET c == call[t]
      r == readCached(ent[c.e], c.p.Attribute)
      callX == [call EXCEPT ![t] = Ret(c, "ReadFile", c.p, r.val, r.err, "fast")]
  IN /\ c.pc = "readCached"
     /\ emu[c.e] = 0
     /\ UNCHANGED <<privlevelFloor, Entries, EntriesIsNil, rmu, emu>>
     /\ call' = callX
     /\ ent' = Collect(ent, makeV7, Entries, callX)
     /\ nSucc' = Collect(nSucc, 0, Entries, callX)

\* the fast path as it would be if a miss in the cache entered the slow path
ReadFileFastComputesMissing(t) ==
  LET c == call[t]
      r == readCached(ent[c.e], c.p.Attribute)
  IN /\ c.pc = "readCached"
     /\ emu[c.e] = 0
     /\ UNCHANGED <<privlevelFloor, Entries, EntriesIsNil, rmu, emu>>
     /\ IF r.err # EWOULDBLOCK /\ r.err # ErrNotExist
        THEN LET callX == [call EXCEPT ![t] = Ret(c, "ReadFile", c.p, r.val, r.err, "fast")]
             IN /\ call' = callX
                /\ ent' = Collect(ent, makeV7, Entries, callX)
                /\ nSucc' = Collect(nSucc, 0, Entries, callX)
        ELSE /\ call' = [call EXCEPT ![t].pc = "slowLock"]
             /\ UNCHANGED <<ent, nSucc>>

\* line 164: e.readCached under e.mu.RLock; anything but EWOULDBLOCK returns
ReadFileFast(t) ==
  LET c == call[t]
      r == readCached(ent[c.e], c.p.Attribute)
  IN /\ c.pc = "readCached"
     /\ emu[c.e] = 0
     /\ UNCHANGED <<privlevelFloor, Entries, EntriesIsNil, rmu, emu>>
     /\ IF r.err # EWOULDBLOCK
        THEN LET callX == [call EXCEPT ![t] = Ret(c, "ReadFile", c.p, r.val, r.err, "fast")]
             IN /\ call' = callX
                /\ ent' = Collect(ent, makeV7, Entries, callX)
                /\ nSucc' = Collect(nSucc, 0, Entries, callX)
        ELSE /\ call' = [call EXCEPT ![t].pc = "slowLock"]
             /\ UNCHANGED <<ent, nSucc>>

\* the re-check as it would be if it served the cache whatever the generations
ReadFileSlowLockAnyGeneration(t) ==
  LET c == call[t]
      e == ent[c.e]
      attr == c.p.Attribute
  IN /\ c.pc = "slowLock"
     /\ emu[c.e] = 0
     /\ UNCHANGED <<privlevelFloor, Entries, EntriesIsNil, rmu>>
     /\ IF attr \in DOMAIN e.ROAttrs
        THEN LET callX == [call EXCEPT ![t] =
                             Ret(c, "ReadFile", c.p, e.ROAttrs[attr], NoErr, "recheck")]
             IN /\ call' = callX
                /\ ent' = Collect(ent, makeV7, Entries, callX)
                /\ nSucc' = Collect(nSucc, 0, Entries, callX)
                /\ UNCHANGED emu
        ELSE /\ emu' = [emu EXCEPT ![c.e] = t]
             /\ ent' = [ent EXCEPT ![c.e].ROAttrs = Put(e.ROAttrs, attr, << >>)]
             /\ call' = [call EXCEPT ![t].pc = "slowCompute"]
             /\ UNCHANGED nSucc

\* the slow path as it would be if it did not wait for e.mu
ReadFileSlowLockUnlocked(t) ==
  LET c == call[t]
      e == ent[c.e]
      attr == c.p.Attribute
  IN /\ c.pc = "slowLock"
     /\ UNCHANGED <<privlevelFloor, Entries, EntriesIsNil, rmu>>
     /\ IF attr \in DOMAIN e.ROAttrs /\ e.ReadGeneration = e.WriteGeneration
        THEN LET callX == [call EXCEPT ![t] =
                             Ret(c, "ReadFile", c.p, e.ROAttrs[attr], NoErr, "recheck")]
             IN /\ call' = callX
                /\ ent' = Collect(ent, makeV7, Entries, callX)
                /\ nSucc' = Collect(nSucc, 0, Entries, callX)
                /\ UNCHANGED emu
        ELSE /\ emu' = [emu EXCEPT ![c.e] = t]
             /\ ent' = [ent EXCEPT ![c.e].ROAttrs = Put(e.ROAttrs, attr, << >>)]
             /\ call' = [call EXCEPT ![t].pc = "slowCompute"]
             /\ UNCHANGED nSucc

\* lines 167-176: e.mu.Lock, the re-check, and the pending sentinel
ReadFileSlowLock(t) ==
  LET c == call[t]
      e == ent[c.e]
      attr == c.p.Attribute
  IN /\ c.pc = "slowLock"
     /\ emu[c.e] = 0
     /\ UNCHANGED <<privlevelFloor, Entries, EntriesIsNil, rmu>>
     /\ IF attr \in DOMAIN e.ROAttrs /\ e.ReadGeneration = e.WriteGeneration
        THEN LET callX == [call EXCEPT ![t] =
                             Ret(c, "ReadFile", c.p, e.ROAttrs[attr], NoErr, "recheck")]
             IN /\ call' = callX
                /\ ent' = Collect(ent, makeV7, Entries, callX)
                /\ nSucc' = Collect(nSucc, 0, Entries, callX)
                /\ UNCHANGED emu
        ELSE /\ emu' = [emu EXCEPT ![c.e] = t]
             /\ ent' = [ent EXCEPT ![c.e].ROAttrs = Put(e.ROAttrs, attr, << >>)]
             /\ call' = [call EXCEPT ![t].pc = "slowCompute"]
             /\ UNCHANGED nSucc

\* the computation as it would be if a failure cleared the cache slot
ReadFileSlowComputeClearsFailure(t) ==
  LET c == call[t]
      e == ent[c.e]
      attr == c.p.Attribute
      r == ReadAttr(e, attr)
      callX == [call EXCEPT ![t] =
                  IF r.err # NoErr
                  THEN Ret(c, "ReadFile", c.p, << >>, Wrap("ReadAttr", r.err), "computed")
                  ELSE Ret(c, "ReadFile", c.p, r.val, NoErr, "computed")]
      entX == IF r.err # NoErr THEN [ent EXCEPT ![c.e].ROAttrs = Del(e.ROAttrs, attr)]
              ELSE [ent EXCEPT ![c.e].ROAttrs = Put(e.ROAttrs, attr, r.val)]
  IN /\ c.pc = "slowCompute"
     /\ emu[c.e] = t
     /\ UNCHANGED <<privlevelFloor, Entries, EntriesIsNil, rmu>>
     /\ emu' = [emu EXCEPT ![c.e] = 0]
     /\ call' = callX
     /\ ent' = Collect(entX, makeV7, Entries, callX)
     /\ nSucc' = Collect(nSucc, 0, Entries, callX)

\* lines 177-183: ReadAttr, store the result, unlock
ReadFileSlowCompute(t) ==
  LET c == call[t]
      e == ent[c.e]
      attr == c.p.Attribute
      r == ReadAttr(e, attr)
      callX == [call EXCEPT ![t] =
                  IF r.err # NoErr
                  THEN Ret(c, "ReadFile", c.p, << >>, Wrap("ReadAttr", r.err), "computed")
                  ELSE Ret(c, "ReadFile", c.p, r.val, NoErr, "computed")]
      entX == IF r.err # NoErr THEN ent
              ELSE [ent EXCEPT ![c.e].ROAttrs = Put(e.ROAttrs, attr, r.val)]
  IN /\ c.pc = "slowCompute"
     /\ emu[c.e] = t
     /\ UNCHANGED <<privlevelFloor, Entries, EntriesIsNil, rmu>>
     /\ emu' = [emu EXCEPT ![c.e] = 0]
     /\ call' = callX
     /\ ent' = Collect(entX, makeV7, Entries, callX)
     /\ nSucc' = Collect(nSucc, 0, Entries, callX)


\* ------------------------------------------------ ReportSubsystem.WriteFile
\* lines 187-200: r.mu.Lock and the registry lookup
WriteFile(t, p, contents) ==
  /\ call[t].pc = "idle"
  /\ UNCHANGED <<privlevelFloor, Entries, EntriesIsNil, ent, emu, nSucc>>
  /\ IF p.Attribute = ""
     THEN /\ call' = [call EXCEPT ![t] =
                 Ret(Idle, "WriteFile", p, << >>, <<"cannot write to non-attribute">>, "")]
          /\ UNCHANGED rmu
     ELSE /\ rmu.w = 0 /\ ~rmu.leaked
          /\ IF p.Entry \notin DOMAIN Entries
             THEN /\ call' = [call EXCEPT ![t] =
                         Ret(Idle, "WriteFile", p, << >>, ErrNotExist, "")]
                  /\ UNCHANGED rmu
             ELSE /\ rmu' = [rmu EXCEPT !.w = t]
                  /\ call' = [call EXCEPT ![t] =
                         [Idle EXCEPT !.pc = "writeLock", !.op = "WriteFile", !.p = p,
                                      !.data = contents, !.e = Entries[p.Entry]]]

\* lines 201-211: e.mu.Lock, the destroyed check, CheckInAttr and
\* tryAdvanceWriteGeneration; every failure unlocks and returns
WriteFileCheck(t) ==
  LET c == call[t]
      e == ent[c.e]
      cerr == CheckInAttr(e, c.p.Attribute, c.data)
      adv == tryAdvanceWriteGeneration(e)
      err == IF e.destroyed THEN ErrNotExist
             ELSE IF cerr # NoErr THEN Wrap("could not write", cerr)
             ELSE adv.err
  IN /\ c.pc = "writeLock"
     /\ rmu.w = t
     /\ emu[c.e] = 0
     /\ UNCHANGED <<privlevelFloor, Entries, EntriesIsNil>>
     /\ IF err # NoErr
        THEN LET callX == [call EXCEPT ![t] = Ret(c, "WriteFile", c.p, << >>, err, "")]
             IN /\ call' = callX
                /\ rmu' = [rmu EXCEPT !.w = 0]
                /\ ent' = Collect(ent, makeV7, Entries, callX)
                /\ nSucc' = Collect(nSucc, 0, Entries, callX)
                /\ UNCHANGED emu
        ELSE /\ emu' = [emu EXCEPT ![c.e] = t]
             /\ ent' = [ent EXCEPT ![c.e] = adv.e]
             /\ call' = [call EXCEPT ![t].pc = "writeAssign"]
             /\ UNCHANGED <<rmu, nSucc>>

\* the assignment as it would be if the entries shared their attribute states
WriteFileAssignShared(t) ==
  LET c == call[t]
  IN /\ c.pc = "writeAssign"
     /\ emu[c.e] = t
     /\ UNCHANGED <<privlevelFloor, Entries, EntriesIsNil>>
     /\ ent' = [i \in Ids |-> [ent[i] EXCEPT !.InAttrs[c.p.Attribute].Value = c.data]]
     /\ nSucc' = [nSucc EXCEPT ![c.e] = @ + 1]
     /\ emu' = [emu EXCEPT ![c.e] = 0]
     /\ rmu' = [rmu EXCEPT !.w = 0]
     /\ call' = [call EXCEPT ![t] = Ret(c, "WriteFile", c.p, << >>, NoErr, "")]

\* lines 212-214: replace the input value, unlock both locks, return nil
WriteFileAssign(t) ==
  LET c == call[t]
  IN /\ c.pc = "writeAssign"
     /\ emu[c.e] = t
     /\ UNCHANGED <<privlevelFloor, Entries, EntriesIsNil>>
     /\ ent' = [ent EXCEPT ![c.e].InAttrs[c.p.Attribute].Value = c.data]
     /\ nSucc' = [nSucc EXCEPT ![c.e] = @ + 1]
     /\ emu' = [emu EXCEPT ![c.e] = 0]
     /\ rmu' = [rmu EXCEPT !.w = 0]
     /\ call' = [call EXCEPT ![t] = Ret(c, "WriteFile", c.p, << >>, NoErr, "")]

\* ------------------------------------------------ ReportSubsystem.RemoveAll
\* RemoveAll as it would be if it returned nil for a name not registered
RemoveAllIgnoresMissing(t, p) ==
  /\ call[t].pc = "idle"
  /\ UNCHANGED <<privlevelFloor, Entries, EntriesIsNil, ent, emu, nSucc>>
  /\ IF p.Attribute # "" \/ p.Entry = << >> \/ p.Subsystem # subsystemName
     THEN /\ call' = [call EXCEPT ![t] =
                 Ret(Idle, "RemoveAll", p, << >>,
                     <<"expected report subsystem entry path">>, "")]
          /\ UNCHANGED rmu
     ELSE /\ rmu.w = 0 /\ ~rmu.leaked
          /\ IF EntriesIsNil \/ p.Entry \notin DOMAIN Entries
             THEN /\ call' = [call EXCEPT ![t] =
                         Ret(Idle, "RemoveAll", p, << >>, NoErr, "")]
                  /\ UNCHANGED rmu
             ELSE /\ rmu' = [rmu EXCEPT !.w = t]
                  /\ call' = [call EXCEPT ![t] =
                         [Idle EXCEPT !.pc = "removeLock", !.op = "RemoveAll", !.p = p,
                                      !.e = Entries[p.Entry]]]

\* RemoveAll as it would be if it did not look at the subsystem of the path
RemoveAllAnySubsystem(t, p) ==
  /\ call[t].pc = "idle"
  /\ UNCHANGED <<privlevelFloor, Entries, EntriesIsNil, ent, emu, nSucc>>
  /\ IF p.Attribute # "" \/ p.Entry = << >>
     THEN /\ call' = [call EXCEPT ![t] =
                 Ret(Idle, "RemoveAll", p, << >>,
                     <<"expected report subsystem entry path">>, "")]
          /\ UNCHANGED rmu
     ELSE /\ rmu.w = 0 /\ ~rmu.leaked
          /\ IF EntriesIsNil \/ p.Entry \notin DOMAIN Entries
             THEN /\ call' = [call EXCEPT ![t] =
                         Ret(Idle, "RemoveAll", p, << >>, ErrNotExist, "")]
                  /\ UNCHANGED rmu
             ELSE /\ rmu' = [rmu EXCEPT !.w = t]
                  /\ call' = [call EXCEPT ![t] =
                         [Idle EXCEPT !.pc = "removeLock", !.op = "RemoveAll", !.p = p,
                                      !.e = Entries[p.Entry]]]

\* lines 217-233: the path check, r.mu.Lock and the registry lookup
RemoveAll(t, p) ==
  /\ call[t].pc = "idle"
  /\ UNCHANGED <<privlevelFloor, Entries, EntriesIsNil, ent, emu, nSucc>>
  /\ IF p.Attribute # "" \/ p.Entry = << >> \/ p.Subsystem # subsystemName
     THEN /\ call' = [call EXCEPT ![t] =
                 Ret(Idle, "RemoveAll", p, << >>,
                     <<"expected report subsystem entry path">>, "")]
          /\ UNCHANGED rmu
     ELSE /\ rmu.w = 0 /\ ~rmu.leaked
          /\ IF EntriesIsNil \/ p.Entry \notin DOMAIN Entries
             THEN /\ call' = [call EXCEPT ![t] =
                         Ret(Idle, "RemoveAll", p, << >>, ErrNotExist, "")]
                  /\ UNCHANGED rmu
             ELSE /\ rmu' = [rmu EXCEPT !.w = t]
                  /\ call' = [call EXCEPT ![t] =
                         [Idle EXCEPT !.pc = "removeLock", !.op = "RemoveAll", !.p = p,
                                      !.e = Entries[p.Entry]]]

\* the removal as it would be if it deleted the name without marking the entry
RemoveAllDestroyUnmarked(t) ==
  LET c == call[t]
      EntriesX == Del(Entries, c.p.Entry)
      callX == [call EXCEPT ![t] = Ret(c, "RemoveAll", c.p, << >>, NoErr, "")]
  IN /\ c.pc = "removeLock"
     /\ rmu.w = t
     /\ emu[c.e] = 0
     /\ UNCHANGED <<privlevelFloor, EntriesIsNil, emu>>
     /\ Entries' = EntriesX
     /\ rmu' = [rmu EXCEPT !.w = 0]
     /\ call' = callX
     /\ ent' = Collect(ent, makeV7, EntriesX, callX)
     /\ nSucc' = Collect(nSucc, 0, EntriesX, callX)

\* lines 235-239: e.mu.Lock, set destroyed, delete from the registry, unlock
RemoveAllDestroy(t) ==
  LET c == call[t]
      EntriesX == Del(Entries, c.p.Entry)
      callX == [call EXCEPT ![t] = Ret(c, "RemoveAll", c.p, << >>, NoErr, "")]
      entX == [ent EXCEPT ![c.e].destroyed = TRUE]
  IN /\ c.pc = "removeLock"
     /\ rmu.w = t
     /\ emu[c.e] = 0
     /\ UNCHANGED <<privlevelFloor, EntriesIsNil, emu>>
     /\ Entries' = EntriesX
     /\ rmu' = [rmu EXCEPT !.w = 0]
     /\ call' = callX
     /\ ent' = Collect(entX, makeV7, EntriesX, callX)
     /\ nSucc' = Collect(nSucc, 0, EntriesX, callX)

\* ------------------------------------------------------- the direct callers
NameA == <<"a">>
NameB == <<"b">>
RawPatterns == {NameA, <<"b", "*">>}
RawEntryNames == {NameA, NameB}
RawReadAttrs == {"generation", "outblob", "inblob", "nosuch"}
\* 0xab, and 65 zero bytes (one more than tsmInBlobSize)
BlobAB == <<171>>
BlobTooLong == [i \in 1 .. tsmInBlobSize + 1 |-> 0]
\* "2", "0", "4" and "x"
RawWrites ==
  {[attr |-> "inblob", data |-> BlobAB],
   [attr |-> "inblob", data |-> BlobTooLong],
   [attr |-> "privlevel", data |-> <<50>>],
   [attr |-> "privlevel", data |-> <<48>>],
   [attr |-> "privlevel", data |-> <<52>>],
   [attr |-> "privlevel", data |-> <<120>>],
   [attr |-> "outblob", data |-> BlobAB]}

RawMkdirTemp(t) ==
  /\ t \in Raw /\ budget.raw > 0 /\ budget' = [budget EXCEPT !.raw = @ - 1]
  /\ UNCHANGED <<sess, gh, app>>
  /\ \E pattern \in RawPatterns, randOK \in BOOLEAN :
       MkdirTemp(t, TsmPath(subsystemName, << >>, ""), pattern, randOK)

RawReadFile(t) ==
  /\ t \in Raw /\ budget.raw > 0 /\ budget' = [budget EXCEPT !.raw = @ - 1]
  /\ UNCHANGED <<sess, gh, app>>
  /\ \E n \in RawEntryNames, a \in RawReadAttrs :
       ReadFile(t, TsmPath(subsystemName, n, a))

RawWriteFile(t) ==
  /\ t \in Raw /\ budget.raw > 0 /\ budget' = [budget EXCEPT !.raw = @ - 1]
  /\ UNCHANGED <<sess, gh, app>>
  /\ \E n \in RawEntryNames, w \in RawWrites :
       WriteFile(t, TsmPath(subsystemName, n, w.attr), w.data)

RawRemoveAll(t) ==
  /\ t \in Raw /\ budget.raw > 0 /\ budget' = [budget EXCEPT !.raw = @ - 1]
  /\ UNCHANGED <<sess, gh, app>>
  /\ \E n \in RawEntryNames :
       RemoveAll(t, TsmPath(subsystemName, n, ""))

\* the direct caller that runs next to the report client works on the
\* client's entry name
ForeignWrites == {[attr |-> "inblob", data |-> <<205>>]}
ForeignReadAttrs == {"outblob"}

ForeignMkdirTemp(t) ==
  /\ t \in Raw /\ budget.raw > 0 /\ budget' = [budget EXCEPT !.raw = @ - 1]
  /\ UNCHANGED <<sess, gh, app>>
  /\ MkdirTemp(t, TsmPath(subsystemName, << >>, ""), NameA, TRUE)

ForeignReadFile(t) ==
  /\ t \in Raw /\ budget.raw > 0 /\ budget' = [budget EXCEPT !.raw = @ - 1]
  /\ UNCHANGED <<sess, gh, app>>
  /\ \E a \in ForeignReadAttrs : ReadFile(t, TsmPath(subsystemName, NameA, a))

ForeignWriteFile(t) ==
  /\ t \in Raw /\ budget.raw > 0 /\ budget' = [budget EXCEPT !.raw = @ - 1]
  /\ UNCHANGED <<sess, gh, app>>
  /\ \E w \in ForeignWrites :
       WriteFile(t, TsmPath(subsystemName, NameA, w.attr), w.data)

ForeignRemoveAll(t) ==
  /\ t \in Raw /\ budget.raw > 0 /\ budget' = [budget EXCEPT !.raw = @ - 1]
  /\ UNCHANGED <<sess, gh, app>>
  /\ RemoveAll(t, TsmPath(subsystemName, NameA, ""))

\* the caller takes the result; the thread is free for its next call
RawReturn(t) ==
  /\ t \in Raw
  /\ call[t].pc = "ret"
  /\ call' = [call EXCEPT ![t] = Idle]
  /\ UNCHANGED <<privlevelFloor, Entries, EntriesIsNil, rmu, ent, emu, nSucc, sess, budget, gh, app>>



\* ---------------------------------------------------- the report client
\* go.uber.org/multierr.Combine of two errors: nil when both are nil, the
\* only error when one is nil, both joined otherwise
Combine(a, b) ==
  IF a = NoErr THEN b ELSE IF b = NoErr THEN a ELSE a \o <<"; ">> \o b

\* fmt.Sprintf("%d", n) of an int
FormatInt(n) == IF n < 0 THEN <<45>> \o FormatUint(0 - n) ELSE FormatUint(n)

\* subsystemPath: the directory of the report subsystem
subsystemPath == TsmPath(subsystemName, << >>, "")
\* OpenReport.attribute
attribute(s, subtree) == TsmPath(subsystemName, s.entry, subtree)

\* readUint64File applied to what ReadFile returned: the number and the error
readUint64File(val, err) ==
  IF err # NoErr THEN [v |-> 0, err |-> Wrap("could not read", err)]
  ELSE LET r == ParseUint(val, GenBits)
       IN IF r.ok THEN [v |-> r.v, err |-> NoErr]
          ELSE [v |-> 0, err |-> <<"strconv.ParseUint: parsing">>]

\* the exported function the caller invoked returns
Done(s, resp, val, err) ==
  [s EXCEPT !.done = TRUE, !.one = "", !.get = "", !.m = "",
            !.subtree = "", !.data = << >>, !.resp = NoResp, !.gerr = NoErr,
            !.rresp = resp, !.rval = val, !.rerr = err]

\* OpenReport.Get, line 167: the first step of the sequence
GetStart(s) ==
  [s EXCEPT !.get = "inblob", !.m = "write", !.subtree = "inblob",
            !.data = s.InBlob, !.resp = NoResp]

\* the one-shot Get as it would be if it returned only the error of r.Get
OneShotNextDropsDestroyError(s, resp, err) ==
  IF s.one = "create"
  THEN IF err # NoErr THEN Done(s, NoResp, << >>, err)
       ELSE GetStart([s EXCEPT !.one = "get"])
  ELSE IF s.one = "get"
  THEN [s EXCEPT !.one = "destroy", !.resp = resp, !.gerr = err, !.m = "remove"]
  ELSE [Done(s, s.resp, << >>, s.gerr) EXCEPT !.obj = FALSE]

\* the one-shot Get (lines 195-203) after the function it called returned:
\* Create with err, OpenReport.Get with (resp, err), Destroy with err
OneShotNext(s, resp, err) ==
  IF s.one = "create"
  THEN IF err # NoErr THEN Done(s, NoResp, << >>, err)
       ELSE GetStart([s EXCEPT !.one = "get"])
  ELSE IF s.one = "get"
  THEN [s EXCEPT !.one = "destroy", !.resp = resp, !.gerr = err, !.m = "remove"]
  ELSE [Done(s, s.resp, << >>, Combine(err, s.gerr)) EXCEPT !.obj = FALSE]

\* OpenReport.Get returns (resp, err) to the one-shot Get or to the caller
GetRet(s, resp, err) ==
  IF s.one = "get" THEN OneShotNext([s EXCEPT !.get = ""], resp, err)
  ELSE Done(s, resp, << >>, err)

\* OpenReport.Get as it would be if it went on after a failed write of inblob
GetNextIgnoresWriteError(s, val, err) ==
  LET read(s1, pos) == [s1 EXCEPT !.get = pos, !.m = "attr", !.subtree = pos,
                                  !.data = << >>]
      reads(s1) == IF s1.GetAuxBlob THEN read(s1, "auxblob") ELSE read(s1, "outblob")
  IN IF s.get = "inblob"
     THEN IF s.Privilege.set
          THEN [s EXCEPT !.get = "privlevel", !.m = "write",
                         !.subtree = "privlevel",
                         !.data = FormatInt(s.Privilege.Level)]
          ELSE reads(s)
     ELSE IF s.get = "privlevel"
     THEN IF err # NoErr THEN GetRet(s, NoResp, err) ELSE reads(s)
     ELSE IF s.get = "auxblob"
     THEN IF err # NoErr
          THEN GetRet(s, NoResp, Wrap("could not read report auxblob", err))
          ELSE read([s EXCEPT !.resp.AuxBlob = val], "outblob")
     ELSE IF s.get = "outblob"
     THEN IF err # NoErr
          THEN GetRet(s, NoResp, Wrap("could not read report outblob", err))
          ELSE read([s EXCEPT !.resp.OutBlob = val], "provider")
     ELSE IF err # NoErr THEN GetRet(s, NoResp, err)
          ELSE GetRet(s, [s.resp EXCEPT !.Provider = val], NoErr)

\* OpenReport.Get (lines 165-192) after the WriteOption or ReadOption of the
\* step s.get returned (val, err)
GetNext(s, val, err) ==
  LET read(s1, pos) == [s1 EXCEPT !.get = pos, !.m = "attr", !.subtree = pos,
                                  !.data = << >>]
      reads(s1) == IF s1.GetAuxBlob THEN read(s1, "auxblob") ELSE read(s1, "outblob")
  IN IF s.get = "inblob"
     THEN IF err # NoErr THEN GetRet(s, NoResp, err)
          ELSE IF s.Privilege.set
               THEN [s EXCEPT !.get = "privlevel", !.m = "write",
                              !.subtree = "privlevel",
                              !.data = FormatInt(s.Privilege.Level)]
               ELSE reads(s)
     ELSE IF s.get = "privlevel"
     THEN IF err # NoErr THEN GetRet(s, NoResp, err) ELSE reads(s)
     ELSE IF s.get = "auxblob"
     THEN IF err # NoErr
          THEN GetRet(s, NoResp, Wrap("could not read report auxblob", err))
          ELSE read([s EXCEPT !.resp.AuxBlob = val], "outblob")
     ELSE IF s.get = "outblob"
     THEN IF err # NoErr
          THEN GetRet(s, NoResp, Wrap("could not read report outblob", err))
          ELSE read([s EXCEPT !.resp.OutBlob = val], "provider")
     ELSE IF err # NoErr THEN GetRet(s, NoResp, err)
          ELSE GetRet(s, [s.resp EXCEPT !.Provider = val], NoErr)

\* a method of the client (fn) returns (val, err) to whoever called it:
\* OpenReport.Get, the one-shot Get, or the caller of the package
MethodRet(s, fn, val, err) ==
  LET s1 == [s EXCEPT !.m = "", !.subtree = "", !.data = << >>,
                      !.last = [fn |-> fn, subtree |-> s.subtree,
                                val |-> val, err |-> err, m |-> s.m]]
  IN IF s.get # "" THEN GetNext(s1, val, err)
     ELSE IF s.one # "" THEN OneShotNext(s1, NoResp, err)
     ELSE Done(s1, NoResp, val, err)


\* an input blob of tsmInBlobSize bytes
BlobFull == [i \in 1 .. tsmInBlobSize |-> i]
\* what the caller passes to the client
Requests ==
  {[InBlob |-> BlobAB, Privilege |-> NoPrivilege, GetAuxBlob |-> TRUE],
   [InBlob |-> BlobAB, Privilege |-> [set |-> TRUE, Level |-> 0], GetAuxBlob |-> FALSE],
   [InBlob |-> << >>, Privilege |-> [set |-> TRUE, Level |-> 300], GetAuxBlob |-> FALSE]}
\* what the caller passes to the one-shot Get
OneShotRequests ==
  Requests \cup {[InBlob |-> BlobFull, Privilege |-> NoPrivilege, GetAuxBlob |-> FALSE]}
\* uuid.New().String(): the name pattern the client passes to MkdirTemp
Uuids == {NameA}
ClientWrites ==
  {[attr |-> "inblob", data |-> BlobAB],
   [attr |-> "privlevel", data |-> <<50>>],
   [attr |-> "privlevel", data |-> <<52>>]}
ClientReadAttrs == {"outblob", "provider"}

ClientFree == sess.top = "" /\ call[S].pc = "idle" /\ budget.client > 0
ClientFrame == UNCHANGED <<storeVars, gh, app>> /\ budget' = [budget EXCEPT !.client = @ - 1]

\* the caller invokes Create(client, req)
UserCreate ==
  /\ ClientFree /\ ~sess.obj /\ ClientFrame
  /\ \E req \in Requests :
       sess' = [NoSession EXCEPT !.top = "Create", !.m = "mkdir",
                  !.InBlob = req.InBlob, !.Privilege = req.Privilege,
                  !.GetAuxBlob = req.GetAuxBlob]

\* the caller invokes the one-shot Get(client, req)
UserOneShot ==
  /\ ClientFree /\ ~sess.obj /\ ClientFrame
  /\ \E req \in OneShotRequests :
       sess' = [NoSession EXCEPT !.top = "OneShot", !.one = "create", !.m = "mkdir",
                  !.InBlob = req.InBlob, !.Privilege = req.Privilege,
                  !.GetAuxBlob = req.GetAuxBlob]

\* a method that calls r.attribute with r.entry nil (line 65, a := *r.entry)
\* ends in a nil pointer dereference: it panics and never returns
Panic(s, fn) == [s EXCEPT !.top = fn, !.m = "panic"]

\* the caller invokes r.WriteOption(subtree, data)
UserWriteOption ==
  /\ ClientFree /\ sess.obj /\ ClientFrame
  /\ \E w \in ClientWrites :
       sess' = IF ~sess.entrySet THEN Panic(sess, "WriteOption")
               ELSE [sess EXCEPT !.top = "WriteOption", !.m = "write",
                                 !.subtree = w.attr, !.data = w.data]

\* the caller invokes r.ReadOption(subtree)
UserReadOption ==
  /\ ClientFree /\ sess.obj /\ ClientFrame
  /\ \E a \in ClientReadAttrs :
       sess' = IF ~sess.entrySet THEN Panic(sess, "ReadOption")
               ELSE [sess EXCEPT !.top = "ReadOption", !.m = "attr", !.subtree = a]

\* the caller invokes r.Get(); its first statement is WriteOption("inblob")
UserGet ==
  /\ ClientFree /\ sess.obj /\ ClientFrame
  /\ sess' = IF ~sess.entrySet THEN Panic(sess, "Get")
             ELSE GetStart([sess EXCEPT !.top = "Get"])

\* r.Destroy() as it would be if it called RemoveAll also with r.entry nil
UserDestroyAlwaysRemoves ==
  /\ ClientFree /\ sess.obj /\ ClientFrame
  /\ sess' = [sess EXCEPT !.top = "Destroy", !.m = "remove"]

\* the caller invokes r.Destroy() (lines 111-119); with r.entry nil it
\* returns nil at once
UserDestroy ==
  /\ ClientFree /\ sess.obj /\ ClientFrame
  /\ sess' = IF sess.entrySet
             THEN [sess EXCEPT !.top = "Destroy", !.m = "remove"]
             ELSE MethodRet([sess EXCEPT !.top = "Destroy"], "Destroy", << >>, NoErr)

\* the caller takes what the exported function returned
UserTake ==
  /\ sess.done
  /\ sess' = [sess EXCEPT !.top = "", !.done = FALSE, !.rresp = NoResp,
                          !.rval = << >>, !.rerr = NoErr, !.last = NoSession.last]
  /\ UNCHANGED <<storeVars, budget, gh, app>>

\* ---- the history of the session's entry
\* the name of the entry the session created (known to the session once
\* MkdirTemp has returned to it)
SessionName == IF sess.entrySet THEN sess.entry ELSE call[S].out

\* what happened to the session's entry since the session was created
Seen ==
  IF gh.fw = 0 THEN "clean"
  ELSE IF ~gh.own THEN "replaced"
  ELSE "written"

\* the history after the step thread t takes inside the store
History(t) ==
  LET c == call[t]
  IN IF c.pc = "writeAssign" /\ t # S /\ sess.entrySet /\ c.p.Entry = sess.entry
     THEN [gh EXCEPT !.fw = @ + 1]
     ELSE IF c.pc = "removeLock" /\ gh.own /\ c.p.Entry = SessionName
     THEN [gh EXCEPT !.own = FALSE]
     ELSE IF c.pc = "readCached" /\ t = S /\ sess.m = "seed"
     THEN [gh EXCEPT !.fw = 0]
     ELSE IF c.pc = "readCached" /\ t = S /\ sess.m = "gen"
     THEN [gh EXCEPT !.seen = Seen]
     ELSE gh

\* ---- the store calls the client issues
\* CreateOpenReport, line 82
ClientMkdirTemp ==
  /\ sess.m = "mkdir" /\ ~sess.done
  /\ \E u \in Uuids : MkdirTemp(S, subsystemPath, u, TRUE)
  /\ gh' = [NoHistory EXCEPT !.own = (call'[S].err = NoErr)]
  /\ UNCHANGED <<sess, budget, app>>

\* WriteOption, line 137
ClientWriteFile ==
  /\ sess.m = "write" /\ ~sess.done
  /\ WriteFile(S, attribute(sess, sess.subtree), sess.data)
  /\ UNCHANGED <<sess, budget, gh, app>>

\* ReadOption, line 147
ClientReadFile ==
  /\ sess.m = "attr" /\ ~sess.done
  /\ ReadFile(S, attribute(sess, sess.subtree))
  /\ UNCHANGED <<sess, budget, gh, app>>

\* readUint64File, line 71, called from CreateOpenReport and ReadOption
ClientReadGeneration ==
  /\ sess.m \in {"seed", "gen"} /\ ~sess.done
  /\ ReadFile(S, attribute(sess, "generation"))
  /\ gh' = IF sess.m = "gen" THEN [gh EXCEPT !.seen = Seen] ELSE gh
  /\ UNCHANGED <<sess, budget, app>>

\* Destroy, line 113
ClientRemoveAll ==
  /\ sess.m \in {"remove", "cleanup"} /\ ~sess.done
  /\ RemoveAll(S, TsmPath(subsystemName, sess.entry, ""))
  /\ UNCHANGED <<sess, budget, gh, app>>

\* ---- the client takes the result of a store call
ClientRet(m) ==
  /\ sess.m = m /\ call[S].pc = "ret"
  /\ call' = [call EXCEPT ![S] = Idle]
  /\ UNCHANGED <<privlevelFloor, Entries, EntriesIsNil, rmu, ent, emu, nSucc, budget, app>>

\* CreateOpenReport, lines 83-88: MkdirTemp returned
CreateOpenReportMkdirRet ==
  /\ ClientRet("mkdir")
  /\ UNCHANGED gh
  /\ sess' = IF call[S].err # NoErr
             THEN MethodRet(sess, "CreateOpenReport", << >>,
                            Wrap("could not create report entry in configfs", call[S].err))
             ELSE [sess EXCEPT !.entrySet = TRUE, !.entry = call[S].out, !.m = "seed"]

\* CreateOpenReport, lines 88-93, and Create, lines 103-106: the first read
\* of "generation" returned
CreateOpenReportSeedRet ==
  /\ ClientRet("seed")
  /\ UNCHANGED gh
  /\ LET g == readUint64File(call[S].val, call[S].err)
     IN sess' = IF g.err # NoErr
                THEN [sess EXCEPT !.expectedGeneration = g.v, !.gerr = g.err,
                                  !.m = "cleanup"]
                ELSE MethodRet([sess EXCEPT !.expectedGeneration = g.v, !.obj = TRUE],
                               "CreateOpenReport", << >>, NoErr)

\* line 91 as it would be if it returned the error of Destroy alone
CreateOpenReportCleanupRetDropsReadError ==
  /\ ClientRet("cleanup")
  /\ UNCHANGED gh
  /\ sess' = MethodRet([sess EXCEPT !.entrySet = FALSE, !.entry = << >>,
                                    !.expectedGeneration = 0, !.gerr = NoErr],
                       "CreateOpenReport", << >>, call[S].err)

\* CreateOpenReport, line 91: the Destroy of a session that could not be
\* initialised returned; the session is dropped
CreateOpenReportCleanupRet ==
  /\ ClientRet("cleanup")
  /\ UNCHANGED gh
  /\ sess' = MethodRet([sess EXCEPT !.entrySet = FALSE, !.entry = << >>,
                                    !.expectedGeneration = 0, !.gerr = NoErr],
                       "CreateOpenReport", << >>, Combine(call[S].err, sess.gerr))

\* WriteOption, lines 137-141
\* WriteOption as it would be if it counted a write that failed
WriteOptionRetCountsFailure ==
  /\ ClientRet("write")
  /\ gh' = [gh EXCEPT !.wrote = @ \/ call[S].err = NoErr]
  /\ sess' = IF call[S].err # NoErr
             THEN MethodRet([sess EXCEPT !.expectedGeneration = (@ + 1) % GenMod],
                            "WriteOption", << >>,
                            Wrap("could not write report", call[S].err))
             ELSE MethodRet([sess EXCEPT !.expectedGeneration = (@ + 1) % GenMod],
                            "WriteOption", << >>, NoErr)

WriteOptionRet ==
  /\ ClientRet("write")
  /\ gh' = [gh EXCEPT !.wrote = @ \/ call[S].err = NoErr]
  /\ sess' = IF call[S].err # NoErr
             THEN MethodRet(sess, "WriteOption", << >>,
                            Wrap("could not write report", call[S].err))
             ELSE MethodRet([sess EXCEPT !.expectedGeneration = (@ + 1) % GenMod],
                            "WriteOption", << >>, NoErr)

\* ReadOption, lines 147-150: the read of the attribute returned
ReadOptionAttrRet ==
  /\ ClientRet("attr")
  /\ UNCHANGED gh
  /\ sess' = IF call[S].err # NoErr
             THEN MethodRet(sess, "ReadOption", << >>,
                            Wrap("could not read report property", call[S].err))
             ELSE [sess EXCEPT !.data = call[S].val, !.m = "gen"]

\* ReadOption as it would be without the comparison of the generations
ReadOptionGenRetNoCompare ==
  /\ ClientRet("gen")
  /\ gh' = [gh EXCEPT !.seen = ""]
  /\ LET g == readUint64File(call[S].val, call[S].err)
     IN sess' = IF g.err # NoErr THEN MethodRet(sess, "ReadOption", << >>, g.err)
                ELSE MethodRet(sess, "ReadOption", sess.data, NoErr)

\* ReadOption, lines 151-159: the read of "generation" returned
ReadOptionGenRet ==
  /\ ClientRet("gen")
  /\ gh' = [gh EXCEPT !.seen = ""]
  /\ LET g == readUint64File(call[S].val, call[S].err)
     IN sess' = IF g.err # NoErr THEN MethodRet(sess, "ReadOption", << >>, g.err)
                ELSE IF g.v # sess.expectedGeneration
                THEN MethodRet(sess, "ReadOption", << >>,
                               <<"report generation was", ToString(g.v),
                                 "when expecting", ToString(sess.expectedGeneration)>>)
                ELSE MethodRet(sess, "ReadOption", sess.data, NoErr)

\* Destroy, lines 113-118: RemoveAll returned
DestroyRet ==
  /\ ClientRet("remove")
  /\ UNCHANGED gh
  /\ sess' = IF call[S].err # NoErr
             THEN MethodRet(sess, "Destroy", << >>, call[S].err)
             ELSE MethodRet([sess EXCEPT !.entrySet = FALSE, !.entry = << >>],
                            "Destroy", << >>, NoErr)

\* ------------------------------------------------------------ specifications
\* the steps inside the store, taken by thread t
StoreStep(t) ==
  /\ \/ ReadFileFast(t)
     \/ ReadFileSlowLock(t)
     \/ ReadFileSlowCompute(t)
     \/ WriteFileCheck(t)
     \/ WriteFileAssign(t)
     \/ RemoveAllDestroy(t)
  /\ gh' = History(t)
  /\ UNCHANGED <<sess, budget, app>>

RawStep(t) ==
  \/ RawMkdirTemp(t)
  \/ RawReadFile(t)
  \/ RawWriteFile(t)
  \/ RawRemoveAll(t)
  \/ RawReturn(t)

ClientStep ==
  \/ UserCreate
  \/ UserOneShot
  \/ UserWriteOption
  \/ UserReadOption
  \/ UserGet
  \/ UserDestroy
  \/ UserTake
  \/ ClientMkdirTemp
  \/ ClientWriteFile
  \/ ClientReadFile
  \/ ClientReadGeneration
  \/ ClientRemoveAll
  \/ CreateOpenReportMkdirRet
  \/ CreateOpenReportSeedRet
  \/ CreateOpenReportCleanupRet
  \/ WriteOptionRet
  \/ ReadOptionAttrRet
  \/ ReadOptionGenRet
  \/ DestroyRet

\* the store under two direct callers
Next ==
  \E t \in Raw : RawStep(t) \/ StoreStep(t)

Spec == Init /\ [][Next]_vars

\* An outside party changes the exported field ReadGeneration of a registered
\* entry (ReportSubsystem.Entries and ReportEntry.ReadGeneration are exported;
\* the entry lock is not, so the assignment happens under no lock).
SetReadGeneration(i, v) ==
  /\ budget.inject > 0
  /\ i \in Range(Entries)
  /\ v # ent[i].ReadGeneration
  /\ ent' = [ent EXCEPT ![i].ReadGeneration = v]
  /\ budget' = [budget EXCEPT !.inject = @ - 1]
  /\ UNCHANGED <<privlevelFloor, Entries, EntriesIsNil, rmu, emu, call, nSucc, sess, gh, app>>

\* the values the outside party sets: WriteGeneration itself (the two
\* generations agree again) and one more (WriteGeneration is one behind)
Injected(i) == {(ent[i].WriteGeneration + d) % GenMod : d \in 0 .. 1}

\* the store under one direct caller and an outside party that sets
\* ReadGeneration
NextExt ==
  \/ \E t \in {1} : RawStep(t) \/ StoreStep(t)
  \/ \E i \in Ids : \E v \in Injected(i) : SetReadGeneration(i, v)

InitExt ==
  /\ privlevelFloor \in 0 .. 1
  /\ Entries = [n \in {} |-> 0]
  /\ EntriesIsNil = TRUE
  /\ rmu = [w |-> 0, leaked |-> FALSE]
  /\ ent = [i \in Ids |-> makeV7]
  /\ emu = [i \in Ids |-> 0]
  /\ call = [t \in Threads |-> Idle]
  /\ nSucc = [i \in Ids |-> 0]
  /\ sess = NoSession
  /\ gh = NoHistory
  /\ app = NoApp
  /\ budget = [raw |-> MaxCalls, client |-> 0, inject |-> MaxInject]

SpecExt == InitExt /\ [][NextExt]_vars

\* the report client next to one direct caller
ForeignStep(t) ==
  \/ ForeignMkdirTemp(t)
  \/ ForeignReadFile(t)
  \/ ForeignWriteFile(t)
  \/ ForeignRemoveAll(t)
  \/ RawReturn(t)

NextClient ==
  \/ \E t \in {1} : ForeignStep(t)
  \/ \E t \in {1, S} : StoreStep(t)
  \/ ClientStep

InitClient ==
  /\ privlevelFloor = 0
  /\ Entries = [n \in {} |-> 0]
  /\ EntriesIsNil = TRUE
  /\ rmu = [w |-> 0, leaked |-> FALSE]
  /\ ent = [i \in Ids |-> makeV7]
  /\ emu = [i \in Ids |-> 0]
  /\ call = [t \in Threads |-> Idle]
  /\ nSucc = [i \in Ids |-> 0]
  /\ sess = NoSession
  /\ gh = NoHistory
  /\ app = NoApp
  /\ budget = [raw |-> MaxForeign, client |-> MaxClientCalls, inject |-> 0]

SpecClient == InitClient /\ [][NextClient]_vars


\* ----------------------------------------- the validation policy on its own
\* "0" "1" "2" "3" "4", "+", "x" and the byte 0xff
TextBytes == {48, 49, 50, 51, 52, 43, 120, 255}
Texts == UNION {[1 .. n -> TextBytes] : n \in 0 .. MaxText}
Blobs == {[i \in 1 .. n |-> 0] : n \in {0, 1, tsmInBlobSize, tsmInBlobSize + 1}}
\* the writes of the two inputs of V7 passed to the policy
CheckWrites ==
  {[attr |-> "privlevel", data |-> d] : d \in Texts}
  \cup {[attr |-> "inblob", data |-> b] : b \in Blobs}

\* r.CheckInAttr(e, p.Attribute, contents), WriteFile line 205, on a fresh entry
CheckApply ==
  /\ app.fn = "checkV7" /\ ~app.done
  /\ app' = [app EXCEPT !.res = CheckInAttr(MakeEntry, app.arg.attr, app.arg.data),
                        !.done = TRUE]
  /\ UNCHANGED <<storeVars, sess, budget, gh>>

\* ReportV7(floor) for the floors 0 .. MaxFloor, and one write to validate
InitCheck ==
  /\ privlevelFloor \in 0 .. MaxFloor
  /\ Entries = [n \in {} |-> 0]
  /\ EntriesIsNil = TRUE
  /\ rmu = [w |-> 0, leaked |-> FALSE]
  /\ ent = [i \in Ids |-> makeV7]
  /\ emu = [i \in Ids |-> 0]
  /\ call = [t \in Threads |-> Idle]
  /\ nSucc = [i \in Ids |-> 0]
  /\ sess = NoSession
  /\ gh = NoHistory
  /\ budget = [raw |-> 0, client |-> 0, inject |-> 0]
  /\ app \in {[NoApp EXCEPT !.fn = "checkV7", !.arg = w] : w \in CheckWrites}

NextCheck == CheckApply

SpecCheck == InitCheck /\ [][NextCheck]_vars

\* --------------------------------------------------- the paths on their own
NameChars == {"a", ".", "/"}
\* the values of a component of a TsmPath
Names == UNION {[1 .. n -> NameChars] : n \in 0 .. MaxName}
TsmPaths == {TsmPath(sub, entry, attr) : sub \in Names, entry \in Names, attr \in Names}

\* the texts passed to ParseTsmPath: a start followed by up to MaxSegs
\* segments, each after a slash
Starts == {TsmPrefix, <<"/">> \o TsmPrefix, TsmPrefix \o <<"x">>, <<"a">>, << >>}
Segs == {<<"a">>, <<"b">>, DotDot, <<".">>, << >>}
RECURSIVE Tails(_)
Tails(n) ==
  IF n = 0 THEN {<< >>}
  ELSE Tails(n - 1)
       \cup {<<"/">> \o g \o t : g \in Segs, t \in Tails(n - 1)}
PathTexts == {b \o t : b \in Starts, t \in Tails(MaxSegs)}

\* p.String() of a TsmPath; the text is then passed to ParseTsmPath
PathString ==
  /\ app.fn = "String" /\ ~app.done
  /\ app' = [app EXCEPT !.fn = "ParseTsmPath", !.arg = String(app.arg),
                        !.from = app.arg]
  /\ UNCHANGED <<storeVars, sess, budget, gh>>

\* ParseTsmPath(filepath)
PathParse ==
  /\ app.fn = "ParseTsmPath" /\ ~app.done
  /\ app' = [app EXCEPT !.res = ParseTsmPath(app.arg), !.done = TRUE]
  /\ UNCHANGED <<storeVars, sess, budget, gh>>

\* a TsmPath to turn into a string, or a text to parse
InitPath ==
  /\ privlevelFloor = 0
  /\ Entries = [n \in {} |-> 0]
  /\ EntriesIsNil = TRUE
  /\ rmu = [w |-> 0, leaked |-> FALSE]
  /\ ent = [i \in Ids |-> makeV7]
  /\ emu = [i \in Ids |-> 0]
  /\ call = [t \in Threads |-> Idle]
  /\ nSucc = [i \in Ids |-> 0]
  /\ sess = NoSession
  /\ gh = NoHistory
  /\ budget = [raw |-> 0, client |-> 0, inject |-> 0]
  /\ app \in {[NoApp EXCEPT !.fn = "String", !.arg = p, !.from = NilPath] : p \in TsmPaths}
            \cup {[NoApp EXCEPT !.fn = "ParseTsmPath", !.arg = x, !.from = NilPath] :
                    x \in PathTexts}

NextPath == PathString \/ PathParse

SpecPath == InitPath /\ [][NextPath]_vars

\* --------------------------------------- the two variants of the policies
\* writes applied to one entry of a variant
MaxPolicyWrites == 2

\* a hexadecimal digit
IsHex(c) == (c >= 48 /\ c <= 57) \/ (c >= 97 /\ c <= 102) \/ (c >= 65 /\ c <= 70)
\* the 36-character form xxxxxxxx-xxxx-xxxx-xxxx-xxxxxxxxxxxx
IsUuid36(s) ==
  /\ Len(s) = 36
  /\ \A i \in 1 .. 36 : IF i \in {9, 14, 19, 24} THEN s[i] = 45 ELSE IsHex(s[i])
\* "urn:uuid:" in either case
IsUrnPrefix(s) ==
  LET low == [i \in 1 .. 9 |-> IF s[i] >= 65 /\ s[i] <= 90 THEN s[i] + 32 ELSE s[i]]
  IN low = <<117, 114, 110, 58, 117, 117, 105, 100, 58>>
\* uuid.Parse: the error, by the length of the text
UuidParse(s) ==
  LET ok == IF Len(s) = 36 THEN IsUuid36(s)
            ELSE IF Len(s) = 45 THEN IsUrnPrefix(s) /\ IsUuid36(SubSeq(s, 10, 45))
            ELSE IF Len(s) = 38 THEN IsUuid36(SubSeq(s, 2, 37))
            ELSE IF Len(s) = 32 THEN \A i \in 1 .. 32 : IsHex(s[i])
            ELSE FALSE
  IN IF ok THEN NoErr ELSE <<"invalid UUID">>

\* configfsi.Kstrtouint(contents, 10, bitSize): the number of a decimal text
\* that may end in one newline.  The texts given to it here have fewer than
\* ten digits, so for a width of 31 bits or more the value always fits.
Kstrtouint(s, bitSize) ==
  LET t == IF s # << >> /\ s[Len(s)] = 10 THEN SubSeq(s, 1, Len(s) - 1) ELSE s
  IN IF bitSize >= 31 THEN ParseUint(t, 30) ELSE ParseUint(t, bitSize)

\* make611 as it would be if it installed no slot for service_guid
make611NoGuid ==
  [makeV7 EXCEPT !.InAttrs =
     [a \in DOMAIN makeV7.InAttrs \cup {"service_provider", "service_manifest_version"} |->
        IF a \in DOMAIN makeV7.InAttrs THEN makeV7.InAttrs[a]
        ELSE [Value |-> << >>, ReadWrite |-> FALSE]]]

\* make611: the entry of makeV7 and the three inputs of 6.11
make611 ==
  [makeV7 EXCEPT !.InAttrs =
     [a \in DOMAIN makeV7.InAttrs
              \cup {"service_provider", "service_guid", "service_manifest_version"} |->
        IF a \in DOMAIN makeV7.InAttrs THEN makeV7.InAttrs[a]
        ELSE [Value |-> << >>, ReadWrite |-> FALSE]]]

\* check611: the three inputs of 6.11, and checkV7 for every other name
check611(floor, attr, contents) ==
  IF attr = "service_provider" THEN NoErr
  ELSE IF attr = "service_guid" THEN UuidParse(contents)
  ELSE IF attr = "service_manifest_version"
       THEN IF ~Utf8Valid(contents) THEN ErrPrivLevelFormat
            ELSE IF Kstrtouint(contents, 32).ok THEN NoErr
            ELSE <<"strconv.ParseUint: parsing">>
  ELSE checkV7(floor, attr, contents)

Variants == {"V7", "611"}
MakeEntryOf(variant) == IF variant = "611" THEN make611 ELSE makeV7
CheckInAttrOf(variant, floor, attr, contents) ==
  IF variant = "611" THEN check611(floor, attr, contents)
  ELSE checkV7(floor, attr, contents)

\* the attribute names written: the inputs of the variants, computed outputs
\* and a name no variant knows
PolicyAttrs ==
  {"inblob", "privlevel", "service_provider", "service_guid",
   "service_manifest_version", "outblob", "manifestblob", "generation", "nosuch"}
\* 00000000-0000-0000-0000-00000000000a
UuidText == [i \in 1 .. 36 |-> IF i \in {9, 14, 19, 24} THEN 45
                               ELSE IF i = 36 THEN 97 ELSE 48]
\* "", "0", "3", "7\n", "x", the byte 0xff, a UUID, 65 zero bytes
PolicyData ==
  {<< >>, <<48>>, <<51>>, <<55, 10>>, <<120>>, <<255>>, UuidText, BlobTooLong}

\* the assignment of line 212 with no slot for the attribute: the map yields
\* a nil pointer, and the write through it panics
ErrNilSlot == <<"panic: nil pointer dereference">>

NoPolicyWrite == [attr |-> "", data |-> << >>, err |-> NoErr, before |-> makeV7]
PolicyApp(variant) ==
  [fn |-> "policy", variant |-> variant, e |-> MakeEntryOf(variant), n |-> 0,
   last |-> NoPolicyWrite]

\* WriteFile, lines 203-213, on the one entry of a registry of the variant
PolicyWrite ==
  /\ app.fn = "policy" /\ app.n < MaxPolicyWrites
  /\ \E attr \in PolicyAttrs, data \in PolicyData :
       LET e == app.e
           cerr == CheckInAttrOf(app.variant, privlevelFloor, attr, data)
           adv == tryAdvanceWriteGeneration(e)
           err == IF e.destroyed THEN ErrNotExist
                  ELSE IF cerr # NoErr THEN Wrap("could not write", cerr)
                  ELSE IF adv.err # NoErr THEN adv.err
                  ELSE IF attr \notin DOMAIN e.InAttrs THEN ErrNilSlot
                  ELSE NoErr
           e2 == IF err = NoErr THEN [adv.e EXCEPT !.InAttrs[attr].Value = data]
                 ELSE IF err = ErrNilSlot THEN adv.e
                 ELSE e
       IN app' = [app EXCEPT !.e = e2, !.n = @ + 1,
                             !.last = [attr |-> attr, data |-> data, err |-> err,
                                       before |-> e]]
  /\ UNCHANGED <<storeVars, sess, budget, gh>>

\* ReportV7(floor) or Report611(floor) with one entry
InitPolicy ==
  /\ privlevelFloor \in 0 .. 1
  /\ Entries = [n \in {} |-> 0]
  /\ EntriesIsNil = TRUE
  /\ rmu = [w |-> 0, leaked |-> FALSE]
  /\ ent = [i \in Ids |-> makeV7]
  /\ emu = [i \in Ids |-> 0]
  /\ call = [t \in Threads |-> Idle]
  /\ nSucc = [i \in Ids |-> 0]
  /\ sess = NoSession
  /\ gh = NoHistory
  /\ budget = [raw |-> 0, client |-> 0, inject |-> 0]
  /\ app \in {PolicyApp(v) : v \in Variants}

NextPolicy == PolicyWrite

SpecPolicy == InitPolicy /\ [][NextPolicy]_vars

\* ------------------------------------------------ the rtmr subsystem (fakertmr)
\* crypto.SHA384.Size()
Size384 == 48
\* calls of ExtendDigest and GetDigest in one run
MaxRtmrCalls == 3

tsmRtmrDigest == "digest"
tsmPathIndex == "index"
tsmPathTcgMap == "tcg_map"
rtmrSubsystem == "rtmrs"

ErrPermission == <<"permission denied">>

ZeroDigest == [k \in 1 .. Size384 |-> 0]

RECURSIVE Fold384(_)
Fold384(data) ==
  IF Len(data) = 0 THEN 7
  ELSE IF Len(data) = 1 THEN data[1] + 1
  ELSE LET m == Len(data) \div 2
       IN (Fold384(SubSeq(data, 1, m)) * 31
           + Fold384(SubSeq(data, m + 1, Len(data))) * 17 + 3) % 65521

\* sha512.Sum384: a fixed-size digest computed from every byte of the data
\* (a checksum over the halves of the data stands in for SHA-384)
Sum384(data) ==
  LET h == Fold384(data)
  IN [k \in 1 .. Size384 |->
        IF k = 1 THEN h % 256 ELSE IF k = 2 THEN h \div 256 ELSE (h + k) % 256]

\* strconv.Atoi: an optional sign, then decimal digits
Atoi(s) ==
  LET signed == s # << >> /\ Head(s) \in {43, 45}
      digits == IF signed THEN Tail(s) ELSE s
      r == ParseUint(digits, 30)
  IN IF ~r.ok THEN [ok |-> FALSE, v |-> 0]
     ELSE [ok |-> TRUE, v |-> IF signed /\ Head(s) = 45 THEN 0 - r.v ELSE r.v]

\* strconv.Itoa
Itoa(n) == FormatInt(n)

\* rtmrPcrMaps[index]: "1,7\n", "2-6\n", "8-15\n", "\n", and "" for a missing key
rtmrPcrMaps(index) ==
  CASE index = 0 -> <<49, 44, 55, 10>>
    [] index = 1 -> <<50, 45, 54, 10>>
    [] index = 2 -> <<56, 45, 49, 53, 10>>
    [] index = 3 -> <<10>>
    [] OTHER -> << >>

\* CreateRtmrSubsystem and CreateRtmrSubsystemWithEntries
CreateRtmrSubsystem(setEntries) ==
  [RtmrMaps |-> [i \in {} |-> 0], Entries |-> [n \in {} |-> 0],
   SetEntries |-> setEntries]

\* readTdx(entry, attr); the entry's rtmrMaps is the subsystem's RtmrMaps
readTdx(r, entry, attr) ==
  IF ~entry.initialized THEN [val |-> << >>, err |-> ErrNotExist]
  ELSE CASE attr = tsmRtmrDigest ->
              [val |-> r.RtmrMaps[entry.rtmrIndex].digest, err |-> NoErr]
         [] attr = tsmPathIndex ->
              [val |-> Itoa(entry.rtmrIndex), err |-> NoErr]
         [] attr = tsmPathTcgMap ->
              [val |-> r.RtmrMaps[entry.rtmrIndex].tcgMap, err |-> NoErr]
         [] OTHER -> [val |-> << >>, err |-> ErrNotExist]

\* writeTdx(entry, attr, content), entry being r.Entries[name]
writeTdx(r, name, attr, content) ==
  LET entry == r.Entries[name]
  IN CASE attr = tsmRtmrDigest ->
            IF Len(content) # Size384 THEN [r |-> r, err |-> EINVAL]
            ELSE IF ~entry.initialized THEN [r |-> r, err |-> ErrNotExist]
            ELSE IF entry.rtmrIndex # 2 /\ entry.rtmrIndex # 3
            THEN [r |-> r, err |-> ErrPermission]
            ELSE LET oldDigest == r.RtmrMaps[entry.rtmrIndex].digest
                     newDigest == Sum384(oldDigest \o content)
                 IN [r |-> [r EXCEPT !.RtmrMaps[entry.rtmrIndex].digest = newDigest],
                     err |-> NoErr]
       [] attr = tsmPathIndex ->
            LET a == Atoi(content)
                index == a.v
                value == [rtmrIndex |-> index, digest |-> ZeroDigest,
                          tcgMap |-> rtmrPcrMaps(index)]
                maps == IF index \in DOMAIN r.RtmrMaps THEN r.RtmrMaps
                        ELSE Put(r.RtmrMaps, index, value)
            IN IF ~a.ok THEN [r |-> r, err |-> <<"WriteTdx: strconv.Atoi: parsing">>]
               ELSE [r |-> [r EXCEPT !.Entries[name] =
                                       [rtmrIndex |-> index, initialized |-> TRUE],
                                     !.RtmrMaps = maps],
                     err |-> NoErr]
       [] OTHER -> [r |-> r, err |-> <<"WriteTdx: unknown attribute">>]

\* fmt.Sprintf("rtmr%d-", index)
DecimalChars(n) ==
  LET digit(d) == <<"0", "1", "2", "3", "4", "5", "6", "7", "8", "9">>[d + 1]
      RECURSIVE chars(_)
      chars(m) == IF m < 10 THEN <<digit(m)>> ELSE chars(m \div 10) \o <<digit(m % 10)>>
  IN IF n < 0 THEN <<"-">> \o chars(0 - n) ELSE chars(n)

rtmrPattern(index) == <<"r", "t", "m", "r">> \o DecimalChars(index) \o <<"-">>

\* the suffixes os.MkdirTemp may append to a directory name
OsRandom == {<<"1">>, <<"2">>}

\* RtmrSubsystem.ReadDir: the names of four directories made by os.MkdirTemp
\* in a fresh directory, sorted by name
RtmrReadDir(r, rnd) ==
  IF r.SetEntries = FALSE THEN [names |-> << >>, err |-> ErrNotExist]
  ELSE [names |-> [i \in 1 .. 4 |-> rtmrPattern(i - 1) \o rnd], err |-> NoErr]

\* RtmrSubsystem.MkdirTemp(dir, pattern) for dir = tsmRtmrPrefix
RtmrMkdirTemp(r, randOK, pattern) ==
  LET name == TempName(randOK, pattern)
  IN IF name \in DOMAIN r.Entries THEN [r |-> r, name |-> << >>, err |-> ErrExist]
     ELSE [r |-> [r EXCEPT !.Entries =
                    Put(r.Entries, name, [rtmrIndex |-> 0, initialized |-> FALSE])],
           name |-> name, err |-> NoErr]

\* RtmrSubsystem.ReadFile(name), name parsed as p
RtmrReadFile(r, p) ==
  IF p.Entry \notin DOMAIN r.Entries THEN [val |-> << >>, err |-> ErrNotExist]
  ELSE readTdx(r, r.Entries[p.Entry], p.Attribute)

\* RtmrSubsystem.WriteFile(name, content), name parsed as p
RtmrWriteFile(r, p, content) ==
  IF p.Attribute = "" THEN [r |-> r, err |-> <<"WriteFile: no attribute specified">>]
  ELSE IF p.Entry \notin DOMAIN r.Entries THEN [r |-> r, err |-> ErrNotExist]
  ELSE writeTdx(r, p.Entry, p.Attribute, content)

\* ------------------------------------------------------------ the rtmr client
\* Extend.validateIndex
validateIndex(r, entry, index) ==
  LET rd == RtmrReadFile(r, TsmPath(rtmrSubsystem, entry, tsmPathIndex))
      k == ParseUint(rd.val, 30)
  IN rd.err = NoErr /\ k.ok /\ k.v = index

\* searchRtmrInterface: the first directory whose index is the one asked for
searchRtmrInterface(r, index, rnd) ==
  LET dir == RtmrReadDir(r, rnd)
      hits == {i \in 1 .. Len(dir.names) : validateIndex(r, dir.names[i], index)}
  IN IF dir.err # NoErr \/ hits = {} THEN [found |-> FALSE, entry |-> << >>]
     ELSE [found |-> TRUE,
           entry |-> dir.names[CHOOSE i \in hits : \A j \in hits : i <= j]]

NoResponse == [RtmrIndex |-> 0 - 1, digest |-> << >>, tcgMap |-> << >>]

\* ---- the callers of the rtmr client
\* a 48-byte digest of zeros, one whose first byte is 1, and "aaaaaaaa"
Sha384Zero == ZeroDigest
Sha384One == [k \in 1 .. Size384 |-> IF k = 1 THEN 1 ELSE 0]
DigestShort == [k \in 1 .. 8 |-> 97]
RtmrDigests == {Sha384Zero, Sha384One, DigestShort}
\* the indices a caller passes: -1, the four registers, and one past them
Rtmrs == 0 .. 4
RtmrIndices == {0 - 1} \cup Rtmrs

\* the digest a GetDigest of index i is to return
DigestOf(r, i) == IF i \in DOMAIN r.RtmrMaps THEN r.RtmrMaps[i].digest ELSE ZeroDigest

NoRtmrCall == [fn |-> "", rtmr |-> 0, digest |-> << >>, err |-> NoErr,
               resp |-> NoResponse, before |-> << >>, had |-> FALSE]

\* the call of the rtmr client in progress: pc is the place it has reached
NoRtmrRun == [pc |-> "idle", fn |-> "", rtmr |-> 0, digest |-> << >>,
              entry |-> << >>, before |-> << >>, had |-> FALSE]

\* what app holds in the rtmr specification
RtmrApp(r) ==
  [fn |-> "rtmr", r |-> r, n |-> 0, run |-> NoRtmrRun, last |-> NoRtmrCall,
   rdfail |-> FALSE, ext |-> [i \in Rtmrs |-> << >>]]

\* an entry that was set to index i is there
HasEntry(r, i) ==
  \E n \in DOMAIN r.Entries : r.Entries[n].initialized /\ r.Entries[n].rtmrIndex = i

\* the call in progress returns err (and resp)
RtmrReturn(a, err, resp) ==
  [a EXCEPT !.run = NoRtmrRun,
            !.last = [fn |-> a.run.fn, rtmr |-> a.run.rtmr, digest |-> a.run.digest,
                      err |-> err, resp |-> resp, before |-> a.run.before,
                      had |-> a.run.had]]

RtmrFrame == UNCHANGED <<storeVars, sess, budget, gh>>

\* ExtendDigest(client, rtmr, digest), lines 161-167: the checks of the arguments
ExtendDigest ==
  /\ app.fn = "rtmr" /\ app.run.pc = "idle" /\ app.n < MaxRtmrCalls
  /\ \E rtmr \in RtmrIndices, digest \in RtmrDigests :
       LET a == [app EXCEPT
                   !.n = @ + 1,
                   !.run = [pc |-> "search", fn |-> "ExtendDigest", rtmr |-> rtmr,
                            digest |-> digest, entry |-> << >>,
                            before |-> [i \in Rtmrs |-> DigestOf(app.r, i)],
                            had |-> rtmr >= 0 /\ HasEntry(app.r, rtmr)]]
       IN app' = IF Len(digest) # Size384
                 THEN RtmrReturn(a, <<"the length of the digest must be 48 bytes">>,
                                 NoResponse)
                 ELSE IF rtmr < 0
                 THEN RtmrReturn(a, <<"invalid rtmr index">>, NoResponse)
                 ELSE a
  /\ RtmrFrame

\* GetDigest(client, rtmr), lines 176-179: the check of the argument
GetDigest ==
  /\ app.fn = "rtmr" /\ app.run.pc = "idle" /\ app.n < MaxRtmrCalls
  /\ \E rtmr \in RtmrIndices :
       LET a == [app EXCEPT
                   !.n = @ + 1,
                   !.run = [pc |-> "search", fn |-> "GetDigest", rtmr |-> rtmr,
                            digest |-> << >>, entry |-> << >>,
                            before |-> [i \in Rtmrs |-> DigestOf(app.r, i)],
                            had |-> rtmr >= 0 /\ HasEntry(app.r, rtmr)]]
       IN app' = IF rtmr < 0
                 THEN RtmrReturn(a, <<"invalid rtmr index">>, NoResponse)
                 ELSE a
  /\ RtmrFrame

\* getRtmrInterface, lines 149-154: searchRtmrInterface
GetRtmrInterface ==
  /\ app.fn = "rtmr" /\ app.run.pc = "search"
  /\ \E rnd \in OsRandom :
       LET s == searchRtmrInterface(app.r, app.run.rtmr, rnd)
       IN app' = IF s.found
                 THEN [app EXCEPT !.run.entry = s.entry, !.run.pc = "use"]
                 ELSE [app EXCEPT !.run.pc = "create"]
  /\ RtmrFrame

\* createRtmrInterface, lines 129-140: MkdirTemp
CreateRtmrInterface ==
  /\ app.fn = "rtmr" /\ app.run.pc = "create"
  /\ \E randOK \in BOOLEAN :
       LET mk == RtmrMkdirTemp(app.r, randOK, rtmrPattern(app.run.rtmr))
           a == [app EXCEPT !.rdfail = @ \/ ~randOK]
       IN app' = IF mk.err # NoErr THEN RtmrReturn(a, mk.err, NoResponse)
                 ELSE [a EXCEPT !.r = mk.r, !.run.entry = mk.name,
                                !.run.pc = "index"]
  /\ RtmrFrame

\* createRtmrInterface, lines 142-145: setRtmrIndex
SetRtmrIndex ==
  /\ app.fn = "rtmr" /\ app.run.pc = "index"
  /\ LET wr == RtmrWriteFile(app.r, TsmPath(rtmrSubsystem, app.run.entry, tsmPathIndex),
                             Itoa(app.run.rtmr))
     IN app' = IF wr.err # NoErr
               THEN RtmrReturn([app EXCEPT !.r = wr.r],
                               Wrap("could not set rtmr index",
                                    Wrap("could not write index", wr.err)),
                               NoResponse)
               ELSE [app EXCEPT !.r = wr.r, !.run.pc = "use"]
  /\ RtmrFrame

\* ExtendDigest, line 172: Extend.extendDigest
ExtendDigestWrite ==
  /\ app.fn = "rtmr" /\ app.run.pc = "use" /\ app.run.fn = "ExtendDigest"
  /\ LET wr == RtmrWriteFile(app.r, TsmPath(rtmrSubsystem, app.run.entry, tsmRtmrDigest),
                             app.run.digest)
     IN app' = IF wr.err # NoErr
               THEN RtmrReturn([app EXCEPT !.r = wr.r],
                               Wrap("could not write digest to rmtr", wr.err),
                               NoResponse)
               ELSE RtmrReturn([app EXCEPT !.r = wr.r,
                                           !.ext[app.run.rtmr] = Append(@, app.run.digest)],
                               NoErr, NoResponse)
  /\ RtmrFrame

\* GetDigest, lines 184-197: Extend.getDigest, Extend.getTcgMap and the response
GetDigestRead ==
  /\ app.fn = "rtmr" /\ app.run.pc = "use" /\ app.run.fn = "GetDigest"
  /\ LET digest == RtmrReadFile(app.r, TsmPath(rtmrSubsystem, app.run.entry,
                                               tsmRtmrDigest))
         tcgmap == RtmrReadFile(app.r, TsmPath(rtmrSubsystem, app.run.entry,
                                               tsmPathTcgMap))
     IN app' = IF digest.err # NoErr THEN RtmrReturn(app, digest.err, NoResponse)
               ELSE IF tcgmap.err # NoErr THEN RtmrReturn(app, tcgmap.err, NoResponse)
               ELSE RtmrReturn(app, NoErr,
                               [RtmrIndex |-> app.run.rtmr, digest |-> digest.val,
                                tcgMap |-> tcgmap.val])
  /\ RtmrFrame

InitRtmr ==
  /\ privlevelFloor = 0
  /\ Entries = [n \in {} |-> 0]
  /\ EntriesIsNil = TRUE
  /\ rmu = [w |-> 0, leaked |-> FALSE]
  /\ ent = [i \in Ids |-> makeV7]
  /\ emu = [i \in Ids |-> 0]
  /\ call = [t \in Threads |-> Idle]
  /\ nSucc = [i \in Ids |-> 0]
  /\ sess = NoSession
  /\ gh = NoHistory
  /\ budget = [raw |-> 0, client |-> 0, inject |-> 0]
  /\ app \in {RtmrApp(CreateRtmrSubsystem(setEntries)) : setEntries \in BOOLEAN}

NextRtmr ==
  \/ ExtendDigest \/ GetDigest \/ GetRtmrInterface \/ CreateRtmrInterface
  \/ SetRtmrIndex \/ ExtendDigestWrite \/ GetDigestRead

SpecRtmr == InitRtmr /\ [][NextRtmr]_vars

\* ------------------------------------- targets of the wrong shape
\* calls of the one caller
MaxShapeCalls == 4

\* the directories passed to MkdirTemp: the subsystem, and two entries of it
ShapeDirs ==
  {TsmPath(subsystemName, << >>, ""), TsmPath(subsystemName, NameA, ""),
   TsmPath(subsystemName, NameB, "")}
\* the paths passed to RemoveAll: an entry, an attribute of it, the subsystem,
\* and the entry of another subsystem
ShapeRemovals ==
  {TsmPath(subsystemName, NameA, ""), TsmPath(subsystemName, NameA, "inblob"),
   TsmPath(subsystemName, << >>, ""), TsmPath(rtmrSubsystem, NameA, "")}

ShapeMkdirTemp(t) ==
  /\ budget.raw > 0 /\ budget' = [budget EXCEPT !.raw = @ - 1]
  /\ UNCHANGED <<sess, gh, app>>
  /\ \E dir \in ShapeDirs, pattern \in RawPatterns : MkdirTemp(t, dir, pattern, TRUE)

ShapeRemoveAll(t) ==
  /\ budget.raw > 0 /\ budget' = [budget EXCEPT !.raw = @ - 1]
  /\ UNCHANGED <<sess, gh, app>>
  /\ \E p \in ShapeRemovals : RemoveAll(t, p)

ShapeRemoveAllDestroy(t) ==
  /\ RemoveAllDestroy(t)
  /\ UNCHANGED <<sess, budget, gh, app>>

InitShape ==
  /\ privlevelFloor = 0
  /\ Entries = [n \in {} |-> 0]
  /\ EntriesIsNil = TRUE
  /\ rmu = [w |-> 0, leaked |-> FALSE]
  /\ ent = [i \in Ids |-> makeV7]
  /\ emu = [i \in Ids |-> 0]
  /\ call = [t \in Threads |-> Idle]
  /\ nSucc = [i \in Ids |-> 0]
  /\ sess = NoSession
  /\ gh = NoHistory
  /\ app = NoApp
  /\ budget = [raw |-> MaxShapeCalls, client |-> 0, inject |-> 0]

NextShape ==
  \E t \in Raw :
    \/ ShapeMkdirTemp(t)
    \/ ShapeRemoveAll(t)
    \/ ShapeRemoveAllDestroy(t)
    \/ RawReturn(t)

SpecShape == InitShape /\ [][NextShape]_vars

\* ------------------------------------------------------------------ claims
\* thread t is between tryAdvanceWriteGeneration and the return of WriteFile
Writing(t, i) == call[t].pc = "writeAssign" /\ call[t].e = i
\* object i is the same entry before and after the step
Same(i) == Live(i, Entries, call) /\ Live(i, Entries', call')

\* C1: whenever no write to an entry is in progress, its WriteGeneration is
\* the number of WriteFile calls on it that returned nil since it was
\* created; a step never lowers it, and a WriteFile that returns an error
\* leaves it as it was.
C1_GenerationCountsWrites ==
  /\ [](\A i \in Ids :
          (\A t \in Threads : ~Writing(t, i)) => ent[i].WriteGeneration = nSucc[i])
  /\ [][\A i \in Ids :
          /\ Same(i) => ent'[i].WriteGeneration >= ent[i].WriteGeneration
          /\ \A t \in Threads :
               (call[t].pc = "writeLock" /\ call[t].e = i
                /\ call'[t].pc = "ret" /\ call'[t].err # NoErr)
               => ent'[i].WriteGeneration = ent[i].WriteGeneration]_vars

\* C1 witness: an entry written twice while the other caller is inside a
\* WriteFile on the same entry
C1_Witness ==
  \E i \in Ids, t \in Threads :
    nSucc[i] >= 2 /\ call[t].pc = "writeLock" /\ call[t].e = i

\* thread t is inside ReadFile, past the registry lookup
Reading(t) == call[t].pc \in {"readCached", "slowLock", "slowCompute"}
\* thread t takes a step of its store call
Stepped(t) == call'[t] # call[t]

\* C3: a ReadFile of the computed output "outblob" that returns a value
\* returns the value the computation policy gives for the inputs the entry
\* holds at the return, also after ReadGeneration was changed from outside.
C3_NoStaleOutput ==
  [][\A t \in Threads :
       (Reading(t) /\ call[t].p.Attribute = "outblob"
        /\ call'[t].pc = "ret" /\ call'[t].err = NoErr)
       => call'[t].val = readV7(privlevelFloor, ent[call[t].e], "outblob").val]_vars

\* C4: when a WriteFile returns nil, no output value the entry's cache held
\* before the write is still in the cache.
C4_WriteInvalidatesCache ==
  [][\A t \in Threads :
       (call[t].pc = "writeAssign" /\ call'[t].pc = "ret")
       => \A a \in DOMAIN ent[call[t].e].ROAttrs :
            ent[call[t].e].ROAttrs[a] # << >>
            => a \notin DOMAIN ent'[call[t].e].ROAttrs]_vars

\* C5: a registered entry is never destroyed, and a ReadFile of "generation"
\* that names a registered entry reaches readCached; readCached on an entry
\* that is not destroyed returns nil and the decimal WriteGeneration in that
\* one step, taking no entry lock and changing nothing in the entry; no
\* ReadFile of "generation" is ever on the slow path.
C5_GenerationFastPath ==
  /\ [](/\ \A n \in DOMAIN Entries : ~ent[Entries[n]].destroyed
        /\ \A t \in Threads :
             call[t].p.Attribute = "generation"
             => call[t].pc \notin {"slowLock", "slowCompute"})
  /\ [][\A t \in Threads :
          /\ (call[t].pc = "idle" /\ call'[t].op = "ReadFile"
              /\ call'[t].p.Attribute = "generation"
              /\ call'[t].p.Entry \in DOMAIN Entries)
             => call'[t].pc = "readCached"
          /\ (call[t].pc = "readCached" /\ call[t].p.Attribute = "generation"
              /\ Stepped(t) /\ ~ent[call[t].e].destroyed)
             => /\ call'[t].pc = "ret"
                /\ call'[t].err = NoErr
                /\ call'[t].val = <<48 + ent[call[t].e].WriteGeneration>>
                /\ emu' = emu
                /\ call[t].p.Entry \in DOMAIN Entries
                   => ent'[call[t].e] = ent[call[t].e]]_vars

\* C5 witness: "generation" read as "2" from an entry whose ReadGeneration
\* is 0
C5_Witness ==
  \E t \in Threads :
    /\ call[t].pc = "ret" /\ call[t].op = "ReadFile" /\ call[t].how = "fast"
    /\ call[t].p.Attribute = "generation"
    /\ call[t].val = <<50>> /\ call[t].err = NoErr
    /\ call[t].p.Entry \in DOMAIN Entries
    /\ ent[Entries[call[t].p.Entry]].ReadGeneration = 0

\* the writes of the callers that the validation policy has to reject: an
\* input blob longer than tsmInBlobSize, a privilege level that is not one
\* of "0" .. "3", a privilege level below the floor
Rejected(floor, attr, data) ==
  \/ attr = "inblob" /\ Len(data) > tsmInBlobSize
  \/ attr = "privlevel" /\ (Len(data) # 1 \/ data[1] \notin 48 .. 51)
  \/ attr = "privlevel" /\ Len(data) = 1 /\ data[1] \in 48 .. 51
     /\ data[1] - 48 < floor

\* C6: a WriteFile of a rejected input returns an error in the step that
\* validates it, and that step leaves the entry (both generations, the input
\* values, the cache) as it was.
C6_RejectedWriteChangesNothing ==
  [][\A t \in Threads :
       (call[t].pc = "writeLock" /\ Stepped(t)
        /\ Rejected(privlevelFloor, call[t].p.Attribute, call[t].data))
       => /\ call'[t].pc = "ret"
          /\ call'[t].err # NoErr
          /\ ent'[call[t].e] = ent[call[t].e]]_vars

\* C6 witness: an oversized input blob was refused on an entry that has been
\* written and has a cached output
C6_Witness ==
  \E t \in Threads :
    /\ call[t].pc = "ret" /\ call[t].op = "WriteFile"
    /\ call[t].err = <<"could not write", "invalid argument">>
    /\ call[t].p.Entry \in DOMAIN Entries
    /\ ent[Entries[call[t].p.Entry]].WriteGeneration >= 1
    /\ ent[Entries[call[t].p.Entry]].ROAttrs # NoCache

\* C7: for a write of an accepted input to an entry that is not destroyed,
\* WriteFile returns EBUSY exactly when WriteGeneration is ReadGeneration - 1
\* modulo the counter width, and then the entry is unchanged; otherwise
\* WriteGeneration goes up by one modulo the width and the next step of the
\* call replaces the input value and returns nil.
C7_BusyIffOneBehind ==
  [][\A t \in Threads :
       LET c == call[t]
           e == ent[c.e]
           e2 == ent'[c.e]
       IN /\ (c.pc = "writeLock" /\ Stepped(t) /\ ~e.destroyed
               /\ c.p.Attribute \in {"inblob", "privlevel"}
               /\ ~Rejected(privlevelFloor, c.p.Attribute, c.data))
              => /\ (call'[t].pc = "ret" /\ call'[t].err = EBUSY)
                    <=> e.WriteGeneration = (e.ReadGeneration + GenMod - 1) % GenMod
                 /\ call'[t].pc = "ret" => call'[t].err = EBUSY /\ e2 = e
                 /\ call'[t].pc # "ret"
                    => /\ call'[t].pc = "writeAssign"
                       /\ e2.WriteGeneration = (e.WriteGeneration + 1) % GenMod
          /\ (c.pc = "writeAssign" /\ Stepped(t))
              => /\ call'[t].pc = "ret" /\ call'[t].err = NoErr
                 /\ e2.InAttrs[c.p.Attribute].Value = c.data
                 /\ e2.WriteGeneration = e.WriteGeneration]_vars

\* C7 witness: EBUSY at the wraparound, WriteGeneration being the largest
\* value of the counter and ReadGeneration 0
C7_Witness ==
  \E t \in Threads :
    /\ call[t].pc = "ret" /\ call[t].op = "WriteFile" /\ call[t].err = EBUSY
    /\ call[t].p.Entry \in DOMAIN Entries
    /\ ent[Entries[call[t].p.Entry]].ReadGeneration = 0
    /\ ent[Entries[call[t].p.Entry]].WriteGeneration = GenMod - 1

\* C9: every step a ReadFile or WriteFile takes on an entry whose destroyed
\* flag is set is a return with ErrNotExist.
C9_DestroyedFailsPending ==
  [][\A t \in Threads :
       ((Reading(t) \/ call[t].pc \in {"writeLock", "writeAssign"})
        /\ ent[call[t].e].destroyed /\ Stepped(t))
       => call'[t].pc = "ret" /\ call'[t].err = ErrNotExist]_vars

\* ReadOption returns in this step: after its read of "generation", or with
\* the error of its read of the attribute
GenerationChecked == sess.m = "gen" /\ sess'.m # "gen"
ReadOptionReturns ==
  GenerationChecked \/ (sess.m = "attr" /\ sess'.m \notin {"attr", "gen"})

\* C2 as stated: ReadOption returns data only if the generation it read is
\* expectedGeneration, and it returns an error and no data if another party
\* wrote to the session's entry between the creation of the session and
\* that read of the generation.
C2_ForeignWriteDetected ==
  [][GenerationChecked
     => /\ sess'.last.err = NoErr
           => /\ call[S].err = NoErr
              /\ call[S].val = <<48 + sess.expectedGeneration>>
              /\ sess'.last.val = sess.data
        /\ gh.seen \in {"written", "replaced"}
           => sess'.last.err # NoErr /\ sess'.last.val = << >>]_vars

\* C2 amended: ReadOption returns data only if the generation it read is
\* expectedGeneration; it returns an error and no data if other parties
\* wrote to the session's entry between the creation of the session and
\* that read of the generation, and the entry the session created was still
\* registered at that read.
C2_ForeignWriteToOwnEntryDetected ==
  [][GenerationChecked
     => /\ sess'.last.err = NoErr
           => /\ call[S].err = NoErr
              /\ call[S].val = <<48 + sess.expectedGeneration>>
              /\ sess'.last.val = sess.data
        /\ gh.seen = "written"
           => sess'.last.err # NoErr /\ sess'.last.val = << >>]_vars

\* C2 witness: ReadOption reported a generation mismatch after another party
\* wrote to the entry the session created
C2_Witness ==
  /\ sess.last.fn = "ReadOption"
  /\ Len(sess.last.err) > 0 /\ sess.last.err[1] = "report generation was"
  /\ gh.own /\ gh.fw > 0

\* the attributes readV7 computes
Computed == {"provider", "auxblob", "outblob", "privlevel_floor"}
\* the value readV7 gives for the inputs the session's entry holds now
Derived(attr) == readV7(privlevelFloor, ent[Entries[sess.entry]], attr).val

Contains(a, b) ==
  \E i \in 0 .. Len(a) - Len(b) : SubSeq(a, i + 1, i + Len(b)) = b

\* C10: when r.Get returns inside the one-shot Get, with or without an
\* error, the next thing is the RemoveAll of Destroy; the one-shot Get
\* returns either with the error of Create or after Destroy returned; in the
\* second case, if RemoveAll returned nil the entry the session created is
\* not registered, the response is the one r.Get returned, and the error is
\* nil exactly when the errors of r.Get and of Destroy are both nil and
\* contains each of them otherwise.
C10_OneShotAlwaysDestroys ==
  /\ [](gh.own => SessionName \in DOMAIN Entries)
  /\ [][/\ (sess.one = "get" /\ sess'.one # "get")
           => /\ sess'.one = "destroy" /\ sess'.m = "remove" /\ ~sess'.done
              /\ sess'.gerr = NoErr <=> sess'.last.err = NoErr
              /\ Contains(sess'.gerr, sess'.last.err)
        /\ (sess.top = "OneShot" /\ ~sess.done /\ sess'.done)
           => \/ sess.one = "create" /\ sess'.rerr # NoErr
              \/ /\ sess.one = "destroy" /\ sess.m = "remove"
                 /\ call[S].op = "RemoveAll" /\ call[S].pc = "ret"
                 /\ call[S].err = NoErr => ~gh.own
                 /\ sess'.rresp = sess.resp
                 /\ sess'.rerr = NoErr
                    <=> (sess.gerr = NoErr /\ call[S].err = NoErr)
                 /\ Contains(sess'.rerr, sess.gerr)
                 /\ Contains(sess'.rerr, call[S].err)]_vars

\* C10 witness: the one-shot Get returned after r.Get and Destroy both
\* failed, with an error longer than the error of Destroy
C10_Witness ==
  /\ sess.done /\ sess.top = "OneShot"
  /\ sess.last.fn = "Destroy" /\ sess.last.err # NoErr
  /\ Len(sess.rerr) > Len(sess.last.err)

\* the step of OpenReport.Get that follows step pos for the session s
StepAfter(s, pos) ==
  LET reads == IF s.GetAuxBlob THEN "auxblob" ELSE "outblob"
  IN CASE pos = "" -> "inblob"
       [] pos = "inblob" -> IF s.Privilege.set THEN "privlevel" ELSE reads
       [] pos = "privlevel" -> reads
       [] pos = "auxblob" -> "outblob"
       [] pos = "outblob" -> "provider"
       [] OTHER -> ""
\* the client takes the result of a store call in this step
ClientTakes == call[S].pc = "ret" /\ call'[S].pc = "idle"
\* the store call the client takes the result of makes the current step of
\* OpenReport.Get fail: it returned an error, or it is the read of
\* "generation" and the number read is not expectedGeneration
StepFails ==
  \/ call[S].err # NoErr
  \/ sess.m = "gen" /\ call[S].val # <<48 + sess.expectedGeneration>>

\* C11: inside OpenReport.Get the steps follow one another in the order
\* inblob, privlevel (privilege set), auxblob (requested), outblob, provider;
\* a write step issues WriteFile of its attribute, a read step ReadFile of
\* its attribute and then of "generation", and a read step is only left
\* after the read of "generation"; when the store call of a step fails,
\* OpenReport.Get is over in that step, its error is not nil and contains
\* the error of the step, its response is empty, and the step changes
\* nothing in the store: the entry stays registered.
C11_GetOrderAndAbort ==
  [][/\ (sess.get # sess'.get /\ sess'.get # "")
        => /\ sess'.get = StepAfter(sess', sess.get)
           /\ sess.get \in {"auxblob", "outblob"} => sess.m = "gen"
     /\ (sess.get # "" /\ call[S].pc = "idle" /\ call'[S].pc # "idle")
        => /\ sess' = sess
           /\ call'[S].p.Entry = sess.entry
           /\ IF sess.get \in {"inblob", "privlevel"}
              THEN /\ call'[S].op = "WriteFile"
                   /\ call'[S].p.Attribute = sess.get
              ELSE /\ call'[S].op = "ReadFile"
                   /\ call'[S].p.Attribute =
                        IF sess.m = "gen" THEN "generation" ELSE sess.get
     /\ (sess.get # "" /\ ClientTakes /\ StepFails)
        => /\ sess'.get = ""
           /\ sess'.last.err # NoErr
           /\ sess'.entrySet /\ sess'.entry = sess.entry
           /\ Entries' = Entries /\ ent' = ent
           /\ IF sess.top = "Get"
              THEN /\ sess'.done /\ sess'.rresp = NoResp
                   /\ sess'.rerr # NoErr
                   /\ Contains(sess'.rerr, sess'.last.err)
              ELSE /\ sess'.one = "destroy" /\ sess'.resp = NoResp
                   /\ sess'.gerr # NoErr
                   /\ Contains(sess'.gerr, sess'.last.err)
     /\ (sess.get # "" /\ ClientTakes /\ ~StepFails /\ sess'.get = "")
        => sess.get = "provider" /\ sess.m = "gen"]_vars

\* C11 witness: r.Get returned the error of the privlevel step to its caller
\* and the session's entry is still registered
C11_Witness ==
  /\ sess.done /\ sess.top = "Get" /\ sess.rerr # NoErr
  /\ sess.last.fn = "WriteOption" /\ sess.last.subtree = "privlevel"
  /\ sess.entrySet /\ sess.entry \in DOMAIN Entries /\ gh.own

C13_CreateSeedRead ==
  [][/\ (sess.m = "seed" /\ ClientTakes /\ call[S].err # NoErr)
        => /\ sess'.m = "cleanup" /\ ~sess'.done /\ ~sess'.obj
           /\ Contains(sess'.gerr, call[S].err)
     /\ (sess.m = "cleanup" /\ call[S].pc = "idle" /\ call'[S].pc # "idle")
        => /\ call'[S].op = "RemoveAll"
           /\ call'[S].p = TsmPath(subsystemName, sess.entry, "")
     /\ (sess.m = "cleanup" /\ ClientTakes)
        => /\ sess'.done /\ ~sess'.obj /\ ~sess'.entrySet
           /\ sess'.rresp = NoResp
           /\ sess.gerr # NoErr /\ Contains(sess'.rerr, sess.gerr)
     /\ (sess.m = "seed" /\ call[S].pc = "readCached" /\ call'[S].pc = "ret"
           /\ call'[S].err = NoErr)
        => call'[S].val = FormatUint(ent[call[S].e].WriteGeneration)
     /\ (sess.m = "seed" /\ ClientTakes /\ call[S].err = NoErr)
        => /\ sess'.obj /\ sess'.entrySet
           /\ call[S].val = FormatUint(sess'.expectedGeneration)
           /\ sess'.last.fn = "CreateOpenReport" /\ sess'.last.err = NoErr]_vars

\* C13 witness: Create returned after the first read of "generation" failed
\* and the entry was removed
C13_Witness ==
  /\ sess.done /\ sess.top = "Create" /\ ~sess.obj
  /\ sess.last.fn = "CreateOpenReport" /\ sess.last.m = "cleanup"
  /\ Contains(sess.rerr, <<"could not read">>)

\* C14: no ReadFile returns EWOULDBLOCK, bare or inside another error; a
\* ReadFile whose readCached gives EWOULDBLOCK returns nothing in that step
\* and goes on to the slow path, which returns either a value with a nil
\* error or the wrapped error of ReadAttr.
C14_WouldBlockAbsorbed ==
  /\ [](\A t \in Threads :
          (call[t].pc = "ret" /\ call[t].op = "ReadFile")
          => ~Contains(call[t].err, EWOULDBLOCK))
  /\ [][\A t \in Threads :
          /\ (call[t].pc = "readCached" /\ Stepped(t)
              /\ readCached(ent[call[t].e], call[t].p.Attribute).err = EWOULDBLOCK)
             => call'[t].pc = "slowLock"
          /\ (call[t].pc \in {"slowLock", "slowCompute"} /\ call'[t].pc = "ret")
             => /\ call'[t].op = "ReadFile"
                /\ \/ call'[t].err = NoErr
                   \/ /\ call'[t].err = Wrap("ReadAttr", ReadAttr(ent[call[t].e], call[t].p.Attribute).err)
                      /\ call'[t].val = << >>]_vars

\* C14 witness: a ReadFile returned a value from the slow path, which it
\* entered because the generations of the entry differ
C14_Witness ==
  \E t \in Threads :
    /\ call[t].pc = "ret" /\ call[t].op = "ReadFile" /\ call[t].how = "computed"
    /\ call[t].err = NoErr /\ call[t].val # << >>
    /\ call[t].p.Entry \in DOMAIN Entries
    /\ ent[Entries[call[t].p.Entry]].ReadGeneration
         # ent[Entries[call[t].p.Entry]].WriteGeneration

\* the names TempName can give for the patterns the callers pass
RawNames == {TempName(randOK, pattern) : randOK \in BOOLEAN, pattern \in RawPatterns}

\* C15: a MkdirTemp in the subsystem directory returns in one step, with
\* ErrExist or nil. With ErrExist a name it could generate is registered,
\* and the registry and every entry are as before. With nil the name it
\* returns was not registered, the registry is the old one plus that name,
\* the entry under it is none of the entries registered before and has
\* zero generations, is not destroyed, has no cached output, privlevel "0"
\* and an empty inblob, and every name registered before has the entry it
\* had, unchanged.
C15_MkdirTempNeverReplaces ==
  [][\A t \in Threads :
       (call[t].pc = "idle" /\ call'[t].op = "MkdirTemp"
        /\ call'[t].p.Entry = << >>)
       => /\ call'[t].pc = "ret"
          /\ call'[t].err \in {ErrExist, NoErr}
          /\ call'[t].err = ErrExist
             => /\ RawNames \cap DOMAIN Entries # {}
                /\ Entries' = Entries /\ ent' = ent
                /\ call'[t].out = << >>
          /\ call'[t].err = NoErr
             => LET name == call'[t].out
                IN /\ name \in RawNames /\ name \notin DOMAIN Entries
                   /\ DOMAIN Entries' = DOMAIN Entries \cup {name}
                   /\ \A n \in DOMAIN Entries :
                        /\ Entries'[n] = Entries[n]
                        /\ Entries'[n] # Entries'[name]
                        /\ ent'[Entries[n]] = ent[Entries[n]]
                   /\ LET e == ent'[Entries'[name]]
                      IN /\ e.WriteGeneration = 0 /\ e.ReadGeneration = 0
                         /\ ~e.destroyed
                         /\ e.ROAttrs = NoCache
                         /\ DOMAIN e.InAttrs = {"privlevel", "inblob"}
                         /\ e.InAttrs["privlevel"].Value = <<48>>
                         /\ e.InAttrs["inblob"].Value = << >>]_vars

\* C15 witness: MkdirTemp returned ErrExist while the entry registered
\* under name "a" has been written to
C15_Witness ==
  \E t \in Threads :
    /\ call[t].pc = "ret" /\ call[t].op = "MkdirTemp" /\ call[t].err = ErrExist
    /\ DOMAIN Entries = {NameA}
    /\ ent[Entries[NameA]].WriteGeneration > 0

\* thread t calls RemoveAll with the path of an entry of the report subsystem
RemoveAllCalled(t) ==
  /\ call[t].pc = "idle" /\ call'[t].op = "RemoveAll"
  /\ call'[t].p.Attribute = "" /\ call'[t].p.Entry # << >>
  /\ call'[t].p.Subsystem = subsystemName

\* C16: a RemoveAll of a name that is not registered returns ErrNotExist in
\* the step that calls it and changes neither the registry nor any entry nor
\* any lock. A RemoveAll of a registered name holds the registry lock from
\* its lookup to its return, so at most one RemoveAll is past its lookup at
\* a time, the entry it found stays registered under the name and not
\* destroyed until it removes it, and it returns nil having unregistered
\* that entry: of several RemoveAll calls on one entry the first to take the
\* lock returns nil and each later one finds the name unregistered.
C16_RemoveAllOnce ==
  /\ [](\A t \in Threads :
          call[t].pc = "removeLock"
          => /\ rmu.w = t
             /\ call[t].p.Entry \in DOMAIN Entries
             /\ Entries[call[t].p.Entry] = call[t].e
             /\ ~ent[call[t].e].destroyed
             /\ \A u \in Threads \ {t} : call[u].pc # "removeLock")
  /\ [][\A t \in Threads :
          /\ (RemoveAllCalled(t) /\ call'[t].p.Entry \notin DOMAIN Entries)
             => /\ call'[t].pc = "ret" /\ call'[t].err = ErrNotExist
                /\ UNCHANGED <<Entries, EntriesIsNil, ent, rmu, emu>>
          /\ (RemoveAllCalled(t) /\ call'[t].p.Entry \in DOMAIN Entries)
             => /\ call'[t].pc = "removeLock"
                /\ UNCHANGED <<Entries, EntriesIsNil, ent, emu>>
          /\ (call[t].pc = "removeLock" /\ Stepped(t))
             => /\ call'[t].pc = "ret" /\ call'[t].err = NoErr
                /\ DOMAIN Entries' = DOMAIN Entries \ {call[t].p.Entry}
                /\ \A n \in DOMAIN Entries' :
                     Entries'[n] = Entries[n] /\ Entries'[n] # call[t].e
          /\ (call'[t].pc = "ret" /\ call'[t].op = "RemoveAll"
              /\ call'[t].err = NoErr /\ Stepped(t))
             => call[t].pc = "removeLock"]_vars

\* C16 witness: two RemoveAll calls on the entry "a" have returned, one with
\* nil and one with ErrNotExist
C16_Witness ==
  \E t, u \in Threads :
    /\ call[t].pc = "ret" /\ call[t].op = "RemoveAll" /\ call[t].err = NoErr
    /\ call[u].pc = "ret" /\ call[u].op = "RemoveAll" /\ call[u].err = ErrNotExist
    /\ call[t].p = call[u].p /\ call[t].p.Entry = NameA
    /\ NameA \notin DOMAIN Entries

\* the one-shot Get returns to its caller in this step
OneShotReturns == sess.top = "OneShot" /\ ~sess.done /\ sess'.done

\* C17: with floor 0 and no other party calling the store, a one-shot Get
\* of a request with no privilege and an input blob of at most
\* tsmInBlobSize bytes returns a nil error, the OutBlob "privlevel: 0",
\* newline, "inblob: " and the hex text of the input blob, the Provider
\* "fake", and the AuxBlob "auxblob" when the request asked for it and none
\* when it did not.
C17_OneShotGetReport ==
  [][(OneShotReturns /\ ~sess.Privilege.set /\ Len(sess.InBlob) <= tsmInBlobSize
      /\ privlevelFloor = 0 /\ budget.raw = MaxForeign)
     => /\ sess'.rerr = NoErr
        /\ sess'.rresp.OutBlob
             = TxtPrivlevel \o <<48>> \o TxtInblob \o HexEncode(sess.InBlob)
        /\ Len(sess'.rresp.OutBlob) = 21 + 2 * Len(sess.InBlob)
        /\ sess'.rresp.Provider = TxtFake
        /\ sess'.rresp.AuxBlob = IF sess.GetAuxBlob THEN TxtAuxblob ELSE << >>]_vars

\* C17 witness: the one-shot Get returned the report of a 64-byte input
\* blob, 149 bytes long
C17_Witness ==
  /\ sess.done /\ sess.top = "OneShot" /\ sess.rerr = NoErr
  /\ ~sess.Privilege.set /\ Len(sess.InBlob) = tsmInBlobSize
  /\ Len(sess.rresp.OutBlob) = 21 + 2 * tsmInBlobSize
  /\ budget.raw = MaxForeign

\* the policy was applied to a write of attr and accepted it
Validated(attr) == app.fn = "checkV7" /\ app.done /\ app.arg.attr = attr
Accepted == app.res = NoErr
\* text d is n written in decimal digits after any number of zeros
DecimalOf(d, n) ==
  /\ Len(d) >= 1 /\ d[Len(d)] = 48 + n
  /\ \A i \in 1 .. Len(d) - 1 : d[i] = 48

\* C18 as stated: a write of privlevel is accepted exactly when its
\* contents are the text strconv.FormatUint gives for a number in 0 .. 3
\* that is not below the floor.
C18_PrivlevelCanonicalText ==
  Validated("privlevel")
  => (Accepted <=> \E n \in 0 .. 3 :
                     app.arg.data = FormatUint(n) /\ n >= privlevelFloor)

\* C18 amended: a write of privlevel is accepted exactly when its contents
\* are decimal digits, leading zeros allowed, whose value is in 0 .. 3 and
\* not below the floor; when the value is in 0 .. 3 and below the floor the
\* error names the value and the floor, and every other text gets
\* ErrPrivLevelFormat.  A write of inblob is accepted exactly when it has at
\* most tsmInBlobSize bytes, and gets EINVAL otherwise.
C18_ValidationPolicy ==
  /\ Validated("privlevel")
     => /\ Accepted <=> \E n \in 0 .. 3 :
                          DecimalOf(app.arg.data, n) /\ n >= privlevelFloor
        /\ \A n \in 0 .. 3 :
             (DecimalOf(app.arg.data, n) /\ n < privlevelFloor)
             => app.res = <<"privlevel cannot be less than",
                            ToString(n), ToString(privlevelFloor)>>
        /\ (\A n \in 0 .. 3 : ~DecimalOf(app.arg.data, n))
             => app.res = ErrPrivLevelFormat
  /\ Validated("inblob")
     => /\ Accepted <=> Len(app.arg.data) <= tsmInBlobSize
        /\ ~Accepted => app.res = EINVAL

\* C18 witness: with floor 3 the level "2" was refused with an error that
\* names 2 and 3
C18_Witness ==
  /\ Validated("privlevel") /\ privlevelFloor = 3
  /\ app.arg.data = <<50>>
  /\ app.res = <<"privlevel cannot be less than", "2", "3">>

\* ParseTsmPath has returned for the text p.String() of a TsmPath p
RoundTrip == app.fn = "ParseTsmPath" /\ app.done /\ app.from # NilPath
\* p has a Subsystem, and an Attribute only with an Entry
Shaped(p) == p.Subsystem # << >> /\ (p.Attribute # << >> => p.Entry # << >>)
\* a component that is either not set or a name: no slash in it, and not
\* "." or ".."
PlainName(n) == (\A i \in 1 .. Len(n) : n[i] # "/") /\ n # <<".">> /\ n # DotDot

\* C19 as stated: for every TsmPath p with a Subsystem, and an Attribute
\* only with an Entry, ParseTsmPath(p.String()) returns nil and p.
C19_RoundTrip ==
  (RoundTrip /\ Shaped(app.from))
  => app.res.err = NoErr /\ app.res.path = app.from

\* C19 amended: the same for every such p whose components are names (no
\* slash in them, none of them "." or "..").
C19_RoundTripOfNames ==
  (RoundTrip /\ Shaped(app.from)
   /\ PlainName(app.from.Subsystem) /\ PlainName(app.from.Entry)
   /\ PlainName(app.from.Attribute))
  => app.res.err = NoErr /\ app.res.path = app.from

\* C19 witness: the TsmPath a, aa, a came back from its text
C19_Witness ==
  /\ RoundTrip
  /\ app.from = TsmPath(<<"a">>, <<"a", "a">>, <<"a">>)
  /\ app.arg = TsmPrefix \o <<"/", "a", "/", "a", "a", "/", "a">>
  /\ app.res.err = NoErr /\ app.res.path = app.from

\* the components of the cleaned text after TsmPrefix (none when the text
\* is TsmPrefix itself)
Components(x) ==
  LET rest == TrimPrefix(TrimPrefix(Clean(x), TsmPrefix), <<"/">>)
  IN IF rest = << >> THEN << >> ELSE SplitSlash(rest)
BeginsWithPrefix(x) ==
  Len(Clean(x)) >= Len(TsmPrefix)
  /\ SubSeq(Clean(x), 1, Len(TsmPrefix)) = TsmPrefix

\* C20: ParseTsmPath returns an error for a text that, cleaned, does not
\* begin with TsmPrefix, has nothing after it, or has more than three
\* components after it; otherwise it returns nil and the TsmPath of the one,
\* two or three components.
C20_ParseTsmPathErrors ==
  (app.fn = "ParseTsmPath" /\ app.done)
  => LET c == Components(app.arg)
         at(i) == IF i <= Len(c) THEN c[i] ELSE << >>
     IN IF ~BeginsWithPrefix(app.arg) \/ c = << >> \/ Len(c) > 3
        THEN app.res.err # NoErr /\ app.res.path = NilPath
        ELSE app.res.err = NoErr /\ app.res.path = TsmPath(at(1), at(2), at(3))

\* ---- the rtmr client
\* the last call was ExtendDigest, made of a source of randomness that never failed
Extended ==
  /\ app.fn = "rtmr" /\ app.run.pc = "idle"
  /\ app.last.fn = "ExtendDigest" /\ ~app.rdfail
\* user space may extend the index with the digest
Extendable(l) == l.rtmr \in {2, 3} /\ Len(l.digest) = Size384
\* no index has another digest than before the last call
DigestsKept == \A i \in Rtmrs : DigestOf(app.r, i) = app.last.before[i]

\* C21: ExtendDigest returns an error and changes no digest when the index is
\* negative, the digest is not 48 bytes long or the index is neither 2 nor 3;
\* for index 2 or 3 with a 48-byte digest it succeeds, also when an entry for
\* that index already exists.
C21_ExtendDigestErrors ==
  Extended =>
    /\ ~Extendable(app.last) => app.last.err # NoErr /\ DigestsKept
    /\ Extendable(app.last) => app.last.err = NoErr

\* the digest of an index after the extensions ds, the first one first
RECURSIVE Extension(_)
Extension(ds) ==
  IF ds = << >> THEN ZeroDigest
  ELSE Sum384(Extension(SubSeq(ds, 1, Len(ds) - 1)) \o ds[Len(ds)])

\* the last call was GetDigest of one of the four registers, made of a source
\* of randomness that never failed
Got == /\ app.fn = "rtmr" /\ app.run.pc = "idle"
       /\ app.last.fn = "GetDigest" /\ ~app.rdfail
       /\ app.last.rtmr \in 0 .. 3

\* what a GetDigest that returned a response returned, and what a successful
\* ExtendDigest did
DigestsRight ==
  /\ Got /\ app.last.err = NoErr =>
       /\ app.last.resp = [RtmrIndex |-> app.last.rtmr,
                           digest |-> Extension(app.ext[app.last.rtmr]),
                           tcgMap |-> rtmrPcrMaps(app.last.rtmr)]
       /\ DigestsKept
  /\ Extended /\ app.last.err = NoErr =>
       \A i \in Rtmrs :
         DigestOf(app.r, i) =
           IF i = app.last.rtmr
           THEN Sum384(app.last.before[i] \o app.last.digest)
           ELSE app.last.before[i]
  /\ Extended /\ app.last.err = NoErr =>
       DigestOf(app.r, app.last.rtmr) # app.last.before[app.last.rtmr]

\* C22: GetDigest of an index in 0..3 returns the index, its fixed TCG map and
\* the digest its successful extensions made of the all-zero digest (the
\* all-zero digest when there was none); a successful ExtendDigest(i, d) makes
\* the digest of i the extension of the previous one by d, a different value,
\* and leaves the digests of the other indices.
C22_GetDigestFollowsExtend ==
  /\ Got => app.last.err = NoErr
  /\ DigestsRight

\* ---- the slow path of ReadFile
\* thread t returns from the computation of the slow path in this step
Computes(t) == call[t].pc = "slowCompute" /\ call'[t].pc = "ret"

\* C23: when a slow-path ReadFile of a computed output returns success, the
\* entry's ReadGeneration equals its WriteGeneration, so that the next read of
\* the attribute is served by readCached.
C23_SlowPathRealigns ==
  [][\A t \in Threads :
       Computes(t) /\ call'[t].err = NoErr /\ call[t].p.Attribute \in Computed =>
         /\ ent[call[t].e].ReadGeneration = ent[call[t].e].WriteGeneration
         /\ readCached(ent'[call[t].e], call[t].p.Attribute).err = NoErr]_vars

\* thread u waits for the entry's lock in the slow path of a read of the
\* attribute thread t is computing
WaitsFor(u, t) ==
  /\ u # t /\ call[u].pc = "slowLock" /\ call[u].e = call[t].e
  /\ call[u].p.Attribute = call[t].p.Attribute

\* the re-check of line 173 serves thread u from the cache
Rechecked(u, es) ==
  /\ call[u].p.Attribute \in DOMAIN es[call[u].e].ROAttrs
  /\ es[call[u].e].ReadGeneration = es[call[u].e].WriteGeneration

\* C24: when a reader stores the value it computed for a computed attribute
\* while another reader of the same attribute of the entry waits for the lock,
\* the re-check serves the waiting reader the cached value, so that the
\* computation policy is not invoked for it again.
C24_DoubleCheckSavesRecomputation ==
  [][\A t, u \in Threads :
       /\ Computes(t) /\ call'[t].err = NoErr
       /\ call[t].p.Attribute \in Computed /\ WaitsFor(u, t)
       => Rechecked(u, ent')]_vars

\* thread t is between marking the cache slot pending and storing the result
Computing(t) == call[t].pc = "slowCompute"

\* C25: while a ReadFile is between marking the cache slot pending and storing
\* the computed result it holds the entry's lock, no other ReadFile is at the
\* computation of the same entry, no WriteFile is past the lock of that entry,
\* and no step changes the entry's generations or inputs.
C25_OneComputationAtATime ==
  /\ [](\A t \in Threads :
          Computing(t) =>
            /\ emu[call[t].e] = t
            /\ \A u \in Threads \ {t} :
                 call[u].e = call[t].e => ~Computing(u) /\ ~Writing(u, call[t].e))
  /\ [][\A t \in Threads :
          Computing(t) /\ Same(call[t].e) =>
            /\ ent'[call[t].e].WriteGeneration = ent[call[t].e].WriteGeneration
            /\ ent'[call[t].e].ReadGeneration = ent[call[t].e].ReadGeneration
            /\ ent'[call[t].e].InAttrs = ent[call[t].e].InAttrs]_vars

\* a reader computes a computed output while a writer waits for the entry
C25_Witness ==
  \E t, w \in Threads :
    /\ Computing(t) /\ call[t].p.Attribute \in Computed
    /\ call[w].pc = "writeLock" /\ call[w].e = call[t].e

\* the cache slot of the attribute thread t reads holds the pending sentinel
\* and the generations of the entry are equal
PendingAligned(t) ==
  LET e == ent[call[t].e]
  IN /\ call[t].p.Attribute \in DOMAIN e.ROAttrs
     /\ e.ROAttrs[call[t].p.Attribute] = << >>
     /\ e.ReadGeneration = e.WriteGeneration
     /\ ~e.destroyed /\ call[t].p.Attribute # "generation"

\* a failed computation returns the policy's error and keeps the sentinel
FailureKeepsSentinel(t) ==
  Computes(t) /\ ReadAttr(ent[call[t].e], call[t].p.Attribute).err # NoErr =>
    /\ call'[t].err = Wrap("ReadAttr", ReadAttr(ent[call[t].e], call[t].p.Attribute).err)
    /\ Same(call[t].e) =>
         /\ call[t].p.Attribute \in DOMAIN ent'[call[t].e].ROAttrs
         /\ ent'[call[t].e].ROAttrs[call[t].p.Attribute] = << >>

\* thread t returns nil and no content in this step, from the cache
ServedEmpty(t) ==
  /\ call'[t].pc = "ret" /\ call'[t].err = NoErr /\ call'[t].val = << >>
  /\ call'[t].how \in {"fast", "recheck"}

Uncached(t) ==
  LET e == ent[call[t].e]
  IN /\ call[t].pc = "readCached"
     /\ e.ReadGeneration = e.WriteGeneration
     /\ call[t].p.Attribute # "generation"
     /\ call[t].p.Attribute \notin DOMAIN e.InAttrs
     /\ call[t].p.Attribute \notin DOMAIN e.ROAttrs

\* C27: when the generations are equal and the attribute is neither
\* "generation" nor an input nor present in the cache, the step of ReadFile
\* that consults readCached returns ErrNotExist, without the computation
\* policy and without a change of the entry.
C27_UncachedIsNotFound ==
  [][\A t \in Threads :
       Uncached(t) /\ Stepped(t) =>
         /\ call'[t].pc = "ret" /\ call'[t].how = "fast"
         /\ call'[t].err = ErrNotExist /\ call'[t].val = << >>
         /\ Same(call[t].e) => ent'[call[t].e] = ent[call[t].e]]_vars

\* a read of outblob on an entry that was never written returned ErrNotExist
C27_Witness ==
  \E t \in Threads :
    /\ call[t].pc = "ret" /\ call[t].op = "ReadFile" /\ call[t].how = "fast"
    /\ call[t].err = ErrNotExist /\ call[t].p.Attribute = "outblob"
    /\ call[t].p.Entry \in DOMAIN Entries
    /\ ent[Entries[call[t].p.Entry]].WriteGeneration = 0
    /\ ~ent[Entries[call[t].p.Entry]].destroyed

\* C28: no ReadFile of an input of the V7 entry (inblob, privlevel: neither
\* is marked readable) returns a nil error.
C28_InputNeverRead ==
  \A t \in Threads :
    call[t].pc = "ret" /\ call[t].op = "ReadFile"
    /\ call[t].p.Attribute \in DOMAIN makeV7.InAttrs
    => call[t].err # NoErr

\* the entry's WriteGeneration is one behind its ReadGeneration, modulo the
\* width of the counter
OneBehind(e) == e.WriteGeneration = (e.ReadGeneration + GenMod - 1) % GenMod

\* C29: every step that changes an entry's WriteGeneration leaves it different
\* from ReadGeneration, and no step that leaves ReadGeneration makes the two
\* equal, so that writes never bring WriteGeneration onto ReadGeneration;
\* when WriteGeneration is one behind ReadGeneration a WriteFile fails and
\* changes nothing, with EBUSY when the entry is there and the input valid.
C29_WriteNeverReachesRead ==
  [][/\ \A i \in Ids :
          Same(i) =>
            /\ ent'[i].WriteGeneration # ent[i].WriteGeneration
                 => ent'[i].WriteGeneration # ent'[i].ReadGeneration
            /\ /\ ent'[i].ReadGeneration = ent[i].ReadGeneration
               /\ ent[i].WriteGeneration # ent[i].ReadGeneration
               => ent'[i].WriteGeneration # ent'[i].ReadGeneration
     /\ \A t \in Threads :
          call[t].pc = "writeLock" /\ Stepped(t) /\ OneBehind(ent[call[t].e]) =>
            /\ call'[t].pc = "ret" /\ call'[t].err # NoErr
            /\ ent'[call[t].e] = ent[call[t].e]
            /\ ~ent[call[t].e].destroyed
               /\ ~Rejected(privlevelFloor, call[t].p.Attribute, call[t].data)
               /\ call[t].p.Attribute \in DOMAIN ent[call[t].e].InAttrs
               => call'[t].err = EBUSY]_vars

\* with ReadGeneration left at 0, the write that follows as many successful
\* writes as the counter has values but one returned EBUSY
C29_Witness ==
  \E t \in Threads :
    /\ call[t].pc = "ret" /\ call[t].op = "WriteFile" /\ call[t].err = EBUSY
    /\ call[t].p.Entry \in DOMAIN Entries
    /\ nSucc[Entries[call[t].p.Entry]] = GenMod - 1
    /\ OneBehind(ent[Entries[call[t].p.Entry]])
    /\ budget.inject = MaxInject

\* ---- the session's count of its writes
\* the session's entry is the one it created, and no other party has written
\* to it since the session read its generation or is writing to it
OnlyWriter ==
  /\ sess.obj /\ sess.entrySet /\ gh.own /\ gh.fw = 0
  /\ sess.entry \in DOMAIN Entries
  /\ \A t \in Raw : ~Writing(t, Entries[sess.entry])

\* WriteOption returns in this step
WriteOptionReturns == sess.m = "write" /\ sess'.m # "write"

\* C30: for a session that is the only writer of its entry, expectedGeneration
\* equals the entry's WriteGeneration whenever the session is not inside the
\* WriteFile of a WriteOption; a WriteOption whose WriteFile returned nil
\* raises expectedGeneration by one, and one whose WriteFile failed leaves it.
C30_ExpectedTracksWrites ==
  /\ [](OnlyWriter /\ sess.m # "write" =>
          sess.expectedGeneration = ent[Entries[sess.entry]].WriteGeneration)
  /\ [][WriteOptionReturns =>
          /\ call[S].err = NoErr =>
               sess'.expectedGeneration = (sess.expectedGeneration + 1) % GenMod
          /\ call[S].err # NoErr =>
               sess'.expectedGeneration = sess.expectedGeneration
          /\ OnlyWriter =>
               sess'.expectedGeneration = ent[Entries[sess.entry]].WriteGeneration]_vars

\* after one successful WriteOption a second one failed, the session being
\* the only writer, and both counts are 1
C30_Witness ==
  /\ OnlyWriter /\ sess.m = ""
  /\ sess.last.fn = "WriteOption" /\ sess.last.err # NoErr
  /\ sess.expectedGeneration = 1
  /\ ent[Entries[sess.entry]].WriteGeneration = 1

\* ---- the locks of the store
\* thread t is inside no call of the store
Outside(t) == call[t].pc \in {"idle", "ret"}

\* C31: a thread that is inside no call of the store holds neither the
\* registry lock nor an entry lock, and no read lock of the registry is left
\* held by a call that has returned (ReadFile on a registry without entries
\* included).
C31_LocksReleased ==
  /\ \A t \in Threads :
       Outside(t) => rmu.w # t /\ \A i \in Ids : emu[i] # t
  /\ ~rmu.leaked

\* C32: no thread holds the registry lock while it holds an entry lock: the
\* registry lock is released before the work on the entry starts, in ReadFile
\* and in WriteFile.
C32_RegistryLockReleasedFirst ==
  \A t \in Threads : \A i \in Ids : emu[i] = t => rmu.w # t

\* ---- destruction
\* thread t looks an entry up in the registry in this step
LooksUp(t) == call[t].pc = "idle" /\ call'[t].e # 0

\* C33: an entry object in use (registered, or held by a call in progress) is
\* a value of the registry map exactly when it is not marked destroyed, at
\* every point where no operation holds the registry lock; and no lookup
\* obtains an entry that is marked destroyed.
C33_DestructionAtomic ==
  /\ [](rmu.w = 0 =>
          \A i \in Ids :
            Live(i, Entries, call) => (i \in Range(Entries) <=> ~ent[i].destroyed))
  /\ [][\A t \in Threads : LooksUp(t) => ~ent[call'[t].e].destroyed]_vars

\* a call in progress holds an entry that was destroyed and removed meanwhile,
\* while another entry is registered
C33_Witness ==
  /\ rmu.w = 0
  /\ Entries # << >>
  /\ \E t \in Threads :
       /\ call[t].pc \in {"readCached", "slowLock"}
       /\ ent[call[t].e].destroyed
       /\ call[t].e \notin Range(Entries)

\* ---- reads of "generation"
\* thread t reads "generation" of its entry in this step and returns it
GenerationRead(t) ==
  /\ call[t].pc = "readCached" /\ call[t].p.Attribute = "generation"
  /\ call'[t].pc = "ret" /\ call'[t].err = NoErr

\* C34: a read of "generation" returns the decimal text of a number that is
\* at least the number of the WriteFile calls on that entry that have returned
\* nil (the generation the last of them produced), and it is the entry's
\* counter at that moment, which no step lowers: a later read of the same
\* entry returns no less.
C34_GenerationReadsMonotone ==
  /\ [][\A t \in Threads :
          GenerationRead(t) =>
            LET v == ParseUint(call'[t].val, GenBits)
            IN /\ v.ok
               /\ v.v >= nSucc[call[t].e]
               /\ v.v = ent[call[t].e].WriteGeneration]_vars
  /\ [][\A i \in Ids :
          Same(i) => ent'[i].WriteGeneration >= ent[i].WriteGeneration]_vars

\* a read of "generation" has returned "2" while the entry has been written
\* twice
C34_Witness ==
  /\ \E t \in Threads :
       /\ call[t].pc = "ret" /\ call[t].op = "ReadFile"
       /\ call[t].p.Attribute = "generation"
       /\ call[t].err = NoErr /\ call[t].val = <<50>>
       /\ call[t].p.Entry \in DOMAIN Entries
       /\ nSucc[Entries[call[t].p.Entry]] = 2

\* ---- the frame of an operation
\* C35: a step changes the generations, the inputs, the cache or the destroyed
\* flag of an entry object only when it is a step of a call that looked that
\* object up, and a call looks up the object registered under the entry name
\* of its path: a call addressed to one entry changes no other entry.
C35_OtherEntriesUnchanged ==
  /\ [][\A j \in Ids :
          Same(j) /\ ent'[j] # ent[j] =>
            \E t \in Threads : Stepped(t) /\ call[t].e = j]_vars
  /\ [][\A t \in Threads :
          LooksUp(t) =>
            /\ call'[t].p.Entry \in DOMAIN Entries
            /\ call'[t].e = Entries[call'[t].p.Entry]]_vars

\* one caller is about to replace an input of one entry while the other
\* waits for the lock of another entry, to compute an output
C35_Witness ==
  \E t, u \in Threads :
    /\ call[t].pc = "writeAssign" /\ call[u].pc = "slowLock"
    /\ call[t].e # call[u].e
    /\ call[t].e \in Range(Entries) /\ call[u].e \in Range(Entries)

\* ---- the session after Destroy
\* the session was destroyed: the caller holds the OpenReport, r.entry is nil
Destroyed == sess.obj /\ ~sess.entrySet

\* C36: a WriteOption, ReadOption or Get invoked on a destroyed session has
\* returned, with an error.
C36_DestroyedIsTerminal ==
  Destroyed /\ sess.top \in {"WriteOption", "ReadOption", "Get"} =>
    sess.done /\ sess.rerr # NoErr

\* ---- the inputs of a variant
\* the names the validation policy of the variant accepts with some contents
Accepted611(variant) ==
  {a \in PolicyAttrs :
     \E d \in PolicyData : CheckInAttrOf(variant, privlevelFloor, a, d) = NoErr}

\* C37: the names the validation policy of a variant accepts are the inputs
\* the variant installs (V7: inblob and privlevel; 6.11: these and
\* service_provider, service_guid, service_manifest_version); a write to
\* another name returns an error and leaves the entry as it was; a write that
\* is accepted finds its slot, and the generation advances only when the
\* input value is replaced.
C37_AcceptedAreInstalled ==
  app.fn = "policy" =>
    /\ Accepted611(app.variant) = DOMAIN MakeEntryOf(app.variant).InAttrs
    /\ DOMAIN MakeEntryOf(app.variant).InAttrs =
         IF app.variant = "611"
         THEN {"inblob", "privlevel", "service_provider", "service_guid",
               "service_manifest_version"}
         ELSE {"inblob", "privlevel"}
    /\ app.n > 0 =>
         /\ app.last.attr \notin DOMAIN app.last.before.InAttrs =>
              app.last.err # NoErr /\ app.e = app.last.before
         /\ app.last.err # ErrNilSlot
         /\ app.last.err = NoErr => app.e.InAttrs[app.last.attr].Value = app.last.data
         /\ app.e.WriteGeneration # app.last.before.WriteGeneration =>
              app.last.err = NoErr

\* a write of a UUID to service_guid of a 6.11 entry was accepted after a
\* write that was rejected
C37_Witness ==
  /\ app.fn = "policy" /\ app.variant = "611" /\ app.n = 2
  /\ app.last.attr = "service_guid" /\ app.last.err = NoErr
  /\ app.e.InAttrs["service_guid"].Value = UuidText
  /\ app.e.WriteGeneration = 1

\* ---- targets of the wrong shape
\* thread t calls op in this step
Calls(t, op) == call[t].pc = "idle" /\ call'[t].op = op
\* the call of thread t is refused in this step, and the registry stays
Refused(t) ==
  /\ call'[t].pc = "ret" /\ call'[t].err # NoErr
  /\ UNCHANGED <<Entries, EntriesIsNil, ent, rmu, emu>>

\* C38: MkdirTemp with a directory that names an entry, and RemoveAll with a
\* path that carries an attribute, names no entry or names another subsystem
\* than report, return an error and leave the registry as it was.
C38_WrongShapeRefused ==
  [][\A t \in Threads :
       /\ Calls(t, "MkdirTemp") /\ call'[t].p.Entry # << >> => Refused(t)
       /\ Calls(t, "RemoveAll")
          /\ (\/ call'[t].p.Attribute # ""
              \/ call'[t].p.Entry = << >>
              \/ call'[t].p.Subsystem # subsystemName)
          => Refused(t)]_vars

\* RemoveAll of the entry a of the rtmrs subsystem was refused while the
\* report subsystem has an entry a, and so was a MkdirTemp inside an entry
C38_Witness ==
  \E t, u \in Threads :
    /\ call[t].pc = "ret" /\ call[t].op = "RemoveAll" /\ call[t].err # NoErr
    /\ call[t].p = TsmPath(rtmrSubsystem, NameA, "")
    /\ NameA \in DOMAIN Entries
    /\ call[u].pc = "ret" /\ call[u].op = "MkdirTemp" /\ call[u].err # NoErr
    /\ call[u].p.Entry = NameA

\* ---- the entries of the rtmr store
\* no two entries of the store were set to the same index
OneEntryPerIndex(r) ==
  \A n, m \in DOMAIN r.Entries :
    (n # m /\ r.Entries[n].initialized /\ r.Entries[m].initialized)
      => r.Entries[n].rtmrIndex # r.Entries[m].rtmrIndex

\* what holds while the source of randomness has not failed: the name made
\* for an index is always the same, so the second entry of an index is
\* refused by its name
OneEntryPerIndexByName ==
  app.fn = "rtmr" /\ ~app.rdfail =>
    /\ OneEntryPerIndex(app.r)
    /\ \A n \in DOMAIN app.r.Entries :
         app.r.Entries[n].initialized => n = rtmrPattern(app.r.Entries[n].rtmrIndex)

\* C39: after any sequence of ExtendDigest and GetDigest calls the store
\* holds at most one entry for an index.
C39_OneEntryPerIndex == app.fn = "rtmr" => OneEntryPerIndex(app.r)

====
